---- MODULE Spec2Model ----
(***************************************************************************)
(* LearnLoop: the learning-loop engine, the gamification engine and the    *)
(* dashboard's view of the learner profile.                                *)
(*                                                                         *)
(* The engines are described by the design document (src/unnamed/part_000: *)
(* "Learning Loop Engine", "Gamification Engine", "Confusion Detection and *)
(* Re-Explanation Logic", the data-flow steps and the database design);    *)
(* the dashboard side is the TypeScript under src/frontend.                *)
(*                                                                         *)
(* One learning session of one learner is modelled, together with the      *)
(* learner's profile record and achievements, the knowledge-graph node of  *)
(* the session's topic, the activity events in flight to the gamification  *)
(* engine, two concurrently running gamification handlers, the frontend    *)
(* StatsProvider, the confusion detector's computation on one response,    *)
(* and the transition requests of two sessions.                            *)
(* Confusion and teach-back scores are counted in tenths (3 is 0.3).       *)
(***************************************************************************)
EXTENDS Integers, Sequences, FiniteSets, TLC

VARIABLES
    state,                \* phase of the learning session
    reExplanationCount,   \* re-explanations generated in the session
    confusionScore,       \* score of the latest confusion detection (tenths)
    perfectSession,       \* no re-explanation was needed so far
    split,                \* the session ended with a sub-topic breakdown
    masteryPc,            \* position inside the mastery steps 17-22
    resumes,              \* times the mastery steps were resumed
    kgNode,               \* knowledge-graph node of the topic
    notified,             \* the real-time mastery notification was pushed
    profile,              \* the learner profile record in the store
    xpTransactions,       \* topic_mastered XP transactions recorded
    handler,              \* the gamification handlers
    eventsEmitted,        \* activity events emitted by other activities
    achievements,         \* the learner's rows of the Achievements table
    today,                \* current calendar day
    stats,                \* stats held by the frontend StatsProvider
    lastStatsRef,         \* StatsProvider: the stats of the previous fetch
    isFirstLoad,          \* StatsProvider: no fetch has succeeded yet
    notifications,        \* addNotification calls made so far, by title
    signals,              \* confusion detector: signals of one response
    computedScore,        \* confusion detector: its score for the signals
    sessionVersion,       \* per session: transitions written so far
    lockHolder,           \* per session: the request mutating it, if any
    transition,           \* the transition requests in flight
    sessionExplanations,  \* per session: length of its explanationHistory
    generationResult,     \* per request: what became of its generation
    explanationHistory,   \* the session's explanations, each as its
                          \* similarity (percent) to the one before it
    generation,           \* outcome of the session's latest generator call
    topicSessions,        \* sessions started on the topic so far
    topicSessionOpen,     \* a session on the topic is in progress
    documents,            \* knowledge base: per document its similarity to
                          \* the query, recency and level match (percent)
    retrieved,            \* RAG pipeline: the documents returned, in order
    inflight,             \* StatsProvider: responses of fetchStats calls
                          \* that have not been processed yet
    isProcessingRef,      \* BuddyAvatar: an utterance is being processed
    isStartingRef,        \* BuddyAvatar: recognition is starting or active
    recognition,          \* the browser's speech recognition session
    speaking,             \* an utterance of Buddy is being spoken
    cancelledPending,     \* the end event of a cancelled utterance is due
    voicesLoaded,         \* speechSynthesis.getVoices() is not empty
    speakRetry,           \* the 100 ms timer that calls speak again is set
    listenTimers,         \* pending timers that call startListening
    chats,                \* chat requests of handleUserSpeech in flight
    registered,           \* backend: the emails with an account
    authCall,             \* AuthProvider: the signup or login call in progress
    user,                 \* AuthProvider: the signed-in user's email
    localStorage,         \* the items token and learnloop_user
    route,                \* the page the router was last sent to
    authError,            \* AuthProvider: error
    signupReturned,       \* what the last signup call returned
    loginReturned,        \* what the last login call returned
    authIsLoading,        \* AuthProvider: isLoading
    socket,               \* room session page: the room's WebSocket
    isListening,          \* room session page: Buddy Ears is switched on
    recognitionRef,       \* room session page: the recognition instance of
                          \* the latest Speech-to-Text effect
    detached,             \* room session page: instances of earlier effects
                          \* that have not ended yet
    effectPending,        \* room session page: socket or isListening changed
                          \* and the Speech-to-Text effect is due to re-run
    transcriptFeed,       \* room session page: final transcripts shown
    sent,                 \* room session page: transcripts sent on the socket
    rooms,                \* rooms page: ids of the rooms the server lists
    activeRoom,           \* rooms page: the room under background observation
    mounted,              \* rooms page: the page is mounted
    observations,         \* rooms page: per run of the observation effect,
                          \* its room, WebSocket and recognition instance
    roomSent,             \* rooms page: transcripts sent on a room WebSocket
    notificationList,     \* NotificationProvider: notifications, newest first
    unreadCount,          \* NotificationProvider: unreadCount
    showPopup,            \* NotificationProvider: the notification in the popup
    popupTimers,          \* NotificationProvider: pending auto-hide timers
    nextNotification,     \* id of the next notification to be added
    messages,             \* BuddyChat: the chat messages, each by its kind
    input,                \* BuddyChat: the text in the input field
    chatIsLoading,        \* BuddyChat: isLoading
    currentSessionId,     \* BuddyChat: currentSessionId
    submit,               \* BuddyChat: the handleSubmit call in progress
    submitCalls,          \* BuddyChat: handleSubmit calls made so far
    sessionId,            \* BuddyAvatar: sessionId of the latest render
    handlerSessionId,     \* BuddyAvatar: sessionId as the handleUserSpeech
                          \* called by the recognition handlers sees it
    utterance,            \* BuddyAvatar: the handleUserSpeech call in progress
    sessionsCreated,      \* backend: sessions created for the avatar
    chatSessionIds,       \* session ids of the chat requests sent, in order
    fetches,              \* StatsProvider: fetchStats calls made for a user
    lastFetchOk,          \* StatsProvider: the latest of them got an OK answer
    baselineUser,         \* the user whose stats lastStatsRef holds
    pageXP,               \* Buddy page: stats.total_xp of the latest render
    buddyPage,            \* Buddy page: what the latest render computed
    prevRender            \* Buddy page: XP and level of the render before

vars == <<state, reExplanationCount, confusionScore, perfectSession, split,
          masteryPc, resumes, kgNode, notified, profile, xpTransactions,
          handler, eventsEmitted, achievements, today, stats, lastStatsRef,
          isFirstLoad, notifications, signals, computedScore, sessionVersion,
          lockHolder, transition, sessionExplanations, generationResult,
          explanationHistory, generation, topicSessions, topicSessionOpen,
          documents, retrieved, inflight, isProcessingRef, isStartingRef,
          recognition, speaking, cancelledPending, voicesLoaded, speakRetry,
          listenTimers, chats, registered, authCall, user, localStorage,
          route, authError, signupReturned, loginReturned, authIsLoading,
          socket, isListening,
          recognitionRef, detached, effectPending, transcriptFeed, sent,
          rooms, activeRoom, mounted, observations, roomSent,
          notificationList, unreadCount, showPopup, popupTimers,
          nextNotification, messages, input, chatIsLoading, currentSessionId,
          submit, submitCalls, sessionId, handlerSessionId, utterance,
          sessionsCreated, chatSessionIds, fetches, lastFetchOk, baselineUser,
          pageXP, buddyPage, prevRender>>

sessionVars == <<state, reExplanationCount, confusionScore, perfectSession, split>>
masteryVars == <<masteryPc, resumes, kgNode, notified>>
gamVars     == <<profile, xpTransactions, handler, eventsEmitted, achievements>>
frontVars   == <<stats, lastStatsRef, isFirstLoad, notifications, inflight>>
detectorVars == <<signals, computedScore>>
lockVars    == <<sessionVersion, lockHolder, transition>>
genVars     == <<sessionExplanations, generationResult>>
explVars    == <<explanationHistory, generation>>
topicVars   == <<topicSessions, topicSessionOpen>>
ragVars     == <<documents, retrieved>>
voiceVars   == <<isProcessingRef, isStartingRef, recognition, speaking,
                 cancelledPending, voicesLoaded, speakRetry, listenTimers, chats>>
authVars    == <<registered, authCall, user, localStorage, route, authError,
                 signupReturned, loginReturned, authIsLoading>>
earsVars    == <<socket, isListening, recognitionRef, detached, effectPending,
                 transcriptFeed, sent>>
roomsVars   == <<rooms, activeRoom, mounted, observations, roomSent>>
notifVars   == <<notificationList, unreadCount, showPopup, popupTimers,
                 nextNotification>>
chatVars    == <<messages, input, chatIsLoading, currentSessionId, submit,
                 submitCalls>>
avatarVars  == <<sessionId, handlerSessionId, utterance, sessionsCreated,
                 chatSessionIds>>
switchVars  == <<fetches, lastFetchOk, baselineUser>>
levelVars   == <<pageXP, buddyPage, prevRender>>
pageVars    == <<earsVars, roomsVars, notifVars, chatVars, avatarVars, switchVars,
                 levelVars>>
extVars     == <<genVars, topicVars, ragVars, voiceVars, authVars, pageVars>>
coreVars    == <<sessionVars, masteryVars, gamVars, today, frontVars, detectorVars,
                 lockVars, explVars, genVars, topicVars, ragVars, voiceVars,
                 authVars>>
\* what the steps of a generating transition leave alone
genFrame    == <<sessionVars, masteryVars, gamVars, today, frontVars, detectorVars,
                 explVars, topicVars, ragVars, voiceVars, authVars,
                 pageVars>>
\* what the knowledge-graph updates of a topic leave alone
topicFrame  == <<sessionVars, masteryPc, resumes, notified, gamVars, today, frontVars,
                 detectorVars, lockVars, explVars, genVars, ragVars, voiceVars,
                 authVars,
                 pageVars>>
\* what the RAG pipeline leaves alone
ragFrame    == <<sessionVars, masteryVars, gamVars, today, frontVars, detectorVars,
                 lockVars, explVars, genVars, topicVars, voiceVars, authVars,
                 pageVars>>
\* what the voice avatar leaves alone
voiceFrame  == <<sessionVars, masteryVars, gamVars, today, frontVars, detectorVars,
                 lockVars, explVars, genVars, topicVars, ragVars, authVars,
                 pageVars>>
\* what the room session page leaves alone
earsFrame   == <<coreVars, roomsVars, notifVars, chatVars, avatarVars,
                 switchVars, levelVars>>
\* what the rooms page leaves alone
roomsFrame  == <<coreVars, earsVars, notifVars, chatVars, avatarVars,
                 switchVars, levelVars>>
\* what the NotificationProvider leaves alone
notifFrame  == <<coreVars, earsVars, roomsVars, chatVars, avatarVars,
                 switchVars, levelVars>>
\* what BuddyChat leaves alone
chatFrame   == <<coreVars, earsVars, roomsVars, notifVars, avatarVars,
                 switchVars, levelVars>>
\* what a fetchStats call for the signed-in user leaves alone
switchFrame == <<sessionVars, masteryVars, gamVars, today, detectorVars, lockVars,
                 explVars, genVars, topicVars, ragVars, voiceVars, authVars,
                 earsVars, roomsVars, notifVars, chatVars, avatarVars, levelVars>>
\* what the Buddy page's level computation leaves alone
levelFrame  == <<coreVars, earsVars, roomsVars, notifVars, chatVars, avatarVars,
                 switchVars>>
\* what the avatar's session handling leaves alone
avatarFrame == <<coreVars, earsVars, roomsVars, notifVars, chatVars,
                 switchVars, levelVars>>
\* what signup, login and logout leave alone
authFrame   == <<sessionVars, masteryVars, gamVars, today, frontVars, detectorVars,
                 lockVars, explVars, genVars, topicVars, ragVars, voiceVars,
                 pageVars>>

----------------------------------------------------------------------------
(* Bounds of the model. *)

MaxEvents  == 2      \* activity events emitted outside the session
MaxResumes == 1      \* resumptions of an interrupted mastery sequence
MaxDay     == 2      \* calendar days the model runs through
MaxLevel   == 9      \* highest level the threshold table is expanded to
MaxAttempts == 4     \* incorrect attempts counted on one response
MaxTransitions == 2  \* transitions requested of one session
MaxTimers == 2       \* pending startListening timers told apart
MaxChats == 2        \* chat requests of the avatar in flight
MaxSessions == 2     \* sessions started on one topic
MaxExplanations == 4 \* explanations saved in one session
MaxSent == 2         \* transcripts sent over the room WebSocket
MaxObservations == 3 \* runs of the rooms page's observation effect
MaxNotifications == 3 \* notifications added to the NotificationProvider
MaxSubmits == 3      \* handleSubmit calls of BuddyChat
MaxUtterances == 4   \* utterances the avatar recognizes
MaxFetches == 3      \* fetchStats calls over the users of one page lifetime
MaxXP == 100150      \* largest total_xp the Buddy page is rendered with

Handlers == {1, 2}
Sessions == {"s1", "s2"}
Requests == {1, 2, 3}

Min(a, b) == IF a < b THEN a ELSE b
Max(a, b) == IF a > b THEN a ELSE b

----------------------------------------------------------------------------
(* Learning Loop Engine: the state machine. *)

States == {"Explanation", "ComprehensionCheck", "Evaluation",
           "ConfusionDetection", "Adaptation", "TeachBack",
           "MasteryVerification", "Complete"}

\* The documented transition list of the state machine.
StateTransitions ==
    { <<"Explanation", "ComprehensionCheck">>,
      <<"ComprehensionCheck", "Evaluation">>,
      <<"Evaluation", "ConfusionDetection">>,
      <<"ConfusionDetection", "Adaptation">>,
      <<"Adaptation", "Explanation">>,
      <<"Adaptation", "TeachBack">>,
      <<"TeachBack", "MasteryVerification">>,
      <<"MasteryVerification", "Complete">> }

Scores == 0..10

MaxReExplanations == 3
TeachBackThreshold == 3
HintUpper == 5
ReExplainUpper == 7
MasteryThreshold == 8

\* AdaptationDecisions with the teach-back test made against the wrong band
\* limit (0.7 instead of 0.3).
AdaptationDecisionsWrongBand(score, count) ==
    IF score < ReExplainUpper THEN {"teach_back"}
    ELSE IF score = ReExplainUpper
         THEN (IF count < MaxReExplanations THEN {"re_explain"} ELSE {"split"})
         ELSE {"split"}

\* Step 11 (adaptation decision) with the re-explanation limit of step 13.
\* The bands "0.3-0.5" and "0.5-0.7" both name 0.5, so either may be taken.
AdaptationDecisions(score, count) ==
    IF score < TeachBackThreshold THEN {"teach_back"}
    ELSE LET hint    == IF score <= HintUpper THEN {"hint"} ELSE {}
             reexpl  == IF score >= HintUpper /\ score <= ReExplainUpper
                        THEN (IF count < MaxReExplanations
                              THEN {"re_explain"} ELSE {"split"})
                        ELSE {}
             breakup == IF score > ReExplainUpper THEN {"split"} ELSE {}
         IN  hint \cup reexpl \cup breakup

\* Step 16: mastery needs all three teach-back scores above 0.8.
TeachBackMastery(completeness, accuracy, clarity) ==
    /\ completeness > MasteryThreshold
    /\ accuracy > MasteryThreshold
    /\ clarity > MasteryThreshold

----------------------------------------------------------------------------
(* Confusion detection: the weighted score of four signals.  Similarity and *)
(* sentiment are counted in tenths, times in seconds, and the score in      *)
(* 1/3000 (ScoreScale is 1.0), which keeps every term an integer.           *)

ScoreScale == 3000

SimilarityWeight   == 40
ResponseTimeWeight == 20
AttemptsWeight     == 30
SentimentWeight    == 10

AttemptsSaturation == 3
DeviationSpan      == 30

Clamp(x, lo, hi) == IF x < lo THEN lo ELSE IF x > hi THEN hi ELSE x

\* Response-time deviation in seconds: 0 up to the baseline of the topic's
\* difficulty, then linear, saturating DeviationSpan seconds beyond it.
ResponseTimeDeviation(responseTimeSeconds, baselineSeconds) ==
    Clamp(responseTimeSeconds - baselineSeconds, 0, DeviationSpan)

\* ConfusionScore with the incorrect attempts left unsaturated.
ConfusionScoreUnsaturated(sig) ==
      SimilarityWeight * 3 * (10 - Clamp(sig.semanticSimilarity, 0, 10))
    + ResponseTimeWeight * ResponseTimeDeviation(sig.responseTimeSeconds,
                                                 sig.baselineSeconds)
    + AttemptsWeight * 10 * sig.incorrectAttempts
    + SentimentWeight * 3 * sig.sentimentConfusionScore

\* ConfusionScore with the weights of similarity and attempts exchanged.
ConfusionScoreSwappedWeights(sig) ==
      AttemptsWeight * 3 * (10 - Clamp(sig.semanticSimilarity, 0, 10))
    + ResponseTimeWeight * ResponseTimeDeviation(sig.responseTimeSeconds,
                                                 sig.baselineSeconds)
    + SimilarityWeight * 10 * Min(sig.incorrectAttempts, AttemptsSaturation)
    + SentimentWeight * 3 * sig.sentimentConfusionScore

\* The weighted combination: 40% dissimilarity, 20% response time, 30%
\* incorrect attempts (3 or more count as 1.0), 10% sentiment.
ConfusionScore(sig) ==
      SimilarityWeight * 3 * (10 - Clamp(sig.semanticSimilarity, 0, 10))
    + ResponseTimeWeight * ResponseTimeDeviation(sig.responseTimeSeconds,
                                                 sig.baselineSeconds)
    + AttemptsWeight * 10 * Min(sig.incorrectAttempts, AttemptsSaturation)
    + SentimentWeight * 3 * sig.sentimentConfusionScore

\* The signal tuples the detector is run on.
SignalTuples ==
    [ semanticSimilarity      : {0, 2, 10},
      responseTimeSeconds     : {10, 35, 45, 80},
      baselineSeconds         : {20, 40},
      incorrectAttempts       : 0..MaxAttempts,
      sentimentConfusionScore : {0, 8, 10} ]

----------------------------------------------------------------------------
(* Gamification Engine: pure computations. *)

ActivityTypes == {"explanation_completed", "check_passed_first",
                  "check_passed_second", "teach_back_success", "topic_mastered"}

\* BaseXP with a slipped digit in the topic_mastered award.
BaseXPSlippedDigit(activityType) ==
    CASE activityType = "explanation_completed" -> 20
      [] activityType = "check_passed_first"    -> 50
      [] activityType = "check_passed_second"   -> 30
      [] activityType = "teach_back_success"    -> 100
      [] activityType = "topic_mastered"        -> 1500

BaseXP(activityType) ==
    CASE activityType = "explanation_completed" -> 20
      [] activityType = "check_passed_first"    -> 50
      [] activityType = "check_passed_second"   -> 30
      [] activityType = "teach_back_success"    -> 100
      [] activityType = "topic_mastered"        -> 150

StreakBonusPerDay == 10
StreakBonusDays   == 10
PerfectBonus      == 50

\* XPDelta with the streak bonus left uncapped.
XPDeltaUncapped(activityType, currentStreak, perfect) ==
    BaseXP(activityType)
    + currentStreak * StreakBonusPerDay
    + (IF perfect THEN PerfectBonus ELSE 0)

XPDelta(activityType, currentStreak, perfect) ==
    BaseXP(activityType)
    + Min(currentStreak, StreakBonusDays) * StreakBonusPerDay
    + (IF perfect THEN PerfectBonus ELSE 0)

\* Level progression table: 0, 500, 1200, 2500, 5000, 10000, then +10000
\* per level.
Threshold(n) ==
    CASE n = 1 -> 0
      [] n = 2 -> 500
      [] n = 3 -> 1200
      [] n = 4 -> 2500
      [] n = 5 -> 5000
      [] n = 6 -> 10000
      [] OTHER -> 10000 + (n - 6) * 10000

LevelOf(xp) ==
    CHOOSE n \in 1..MaxLevel :
        /\ Threshold(n) <= xp
        /\ \A m \in 1..MaxLevel : Threshold(m) <= xp => m <= n

\* Gamification step 5: does the new total cross a level threshold?
CrossesThreshold(oldXP, newXP) ==
    \E n \in 2..MaxLevel : oldXP < Threshold(n) /\ Threshold(n) <= newXP

\* Streak tracking: +1 on the day after the last activity, unchanged on the
\* same day, reset to 0 when a day was skipped.
StreakAfter(currentStreak, lastActivityDate, day) ==
    IF lastActivityDate = day THEN currentStreak
    ELSE IF lastActivityDate + 1 = day THEN currentStreak + 1
    ELSE 0

\* A streak-freeze credit covers exactly one skipped day: the streak then
\* restarts at 1 instead of 0.
StreakWithFreeze(currentStreak, lastActivityDate, day, freezes) ==
    IF lastActivityDate + 2 = day /\ freezes > 0 THEN 1
    ELSE StreakAfter(currentStreak, lastActivityDate, day)

\* Evolution stages by level: Seedling 1-2, Sprout 3-4, Sapling 5-6,
\* Tree 7-9, Master 10+.
EvolutionStage(level) ==
    IF level <= 2 THEN "Seedling"
    ELSE IF level <= 4 THEN "Sprout"
    ELSE IF level <= 6 THEN "Sapling"
    ELSE IF level <= 9 THEN "Tree"
    ELSE "Master"

\* StageBoundaries taken as the first level of each stage but Master.
StageBoundariesFirstLevel == {1, 3, 5, 7}

\* Gamification step 5: the last level of each stage but Master.
StageBoundaries == {2, 4, 6, 9}

NextStage(stage) ==
    CASE stage = "Seedling" -> "Sprout"
      [] stage = "Sprout"   -> "Sapling"
      [] stage = "Sapling"  -> "Tree"
      [] OTHER              -> "Master"

\* Gamification steps 3-5 applied to a fetched profile.
ApplyEvent(p, ev, day) ==
    LET newXP     == p.totalXP + XPDelta(ev.type, p.currentStreak, ev.perfect)
        newLevel  == IF CrossesThreshold(p.totalXP, newXP)
                     THEN p.level + 1 ELSE p.level
        newStreak == StreakWithFreeze(p.currentStreak, p.lastActivityDate, day,
                                      p.streakFreezes)
        frozen    == p.lastActivityDate + 2 = day /\ p.streakFreezes > 0
    IN  [ totalXP          |-> newXP,
          level            |-> newLevel,
          evolutionStage   |-> IF newLevel > p.level /\ p.level \in StageBoundaries
                               THEN NextStage(p.evolutionStage)
                               ELSE p.evolutionStage,
          currentStreak    |-> newStreak,
          longestStreak    |-> Max(p.longestStreak, newStreak),
          lastActivityDate |-> day,
          streakFreezes    |-> IF frozen THEN p.streakFreezes - 1
                               ELSE p.streakFreezes ]

\* Achievements table: the rows modelled.
AchievementIds == {"first_topic", "streak_7"}

StreakTarget == 7
NotUnlocked  == -100      \* unlockedAt of a row that is not completed
EarlierDay   == -3        \* unlockedAt of a row completed before the model starts

\* Gamification step 6: is the achievement unlocked by the new stats?
AchievementSatisfied(a, p, ev) ==
    CASE a = "first_topic" -> ev.type = "topic_mastered"
      [] a = "streak_7"    -> p.currentStreak >= StreakTarget

\* Gamification step 6: the achievements newly unlocked by the new stats.
UnlockedAchievements(ach, p, ev) ==
    { a \in AchievementIds : ~ach[a].completed /\ AchievementSatisfied(a, p, ev) }

----------------------------------------------------------------------------
(* Frontend: the Buddy page recomputes a level from the fetched XP, and the *)
(* StatsProvider derives the level title.                                   *)

LinearXPPerLevel == 100
LinearLevelCap   == 1000

\* The level without the cap.
correctLevelUncapped(total_xp) ==
    1 + (total_xp \div LinearXPPerLevel)

correctLevel(total_xp) ==
    Min(1 + (total_xp \div LinearXPPerLevel), LinearLevelCap)

currentLevelMinXP(total_xp) ==
    (correctLevel(total_xp) - 1) * LinearXPPerLevel

nextLevelMinXP(total_xp) ==
    IF correctLevel(total_xp) >= LinearLevelCap
    THEN currentLevelMinXP(total_xp)
    ELSE correctLevel(total_xp) * LinearXPPerLevel

\* Math.max(0, stats.total_xp - currentLevelMinXP)
xpProgress(total_xp) ==
    IF total_xp - currentLevelMinXP(total_xp) > 0
    THEN total_xp - currentLevelMinXP(total_xp) ELSE 0

\* Math.max(1, nextLevelMinXP - currentLevelMinXP)
xpRequiredForLevel(total_xp) ==
    IF nextLevelMinXP(total_xp) - currentLevelMinXP(total_xp) > 1
    THEN nextLevelMinXP(total_xp) - currentLevelMinXP(total_xp) ELSE 1

\* The value handed to the progress bar, in whole percent.
ProgressValue(total_xp) ==
    IF correctLevel(total_xp) >= LinearLevelCap THEN 100
    ELSE (xpProgress(total_xp) * 100) \div xpRequiredForLevel(total_xp)

\* The total_xp values the page is rendered with: the first levels and the
\* levels around the cap.
XPInputs == {x \in 0..MaxXP : x <= 250 \/ x >= 99800}

NotRendered == [rendered |-> FALSE, correctLevel |-> 0, xpProgress |-> 0,
                xpRequiredForLevel |-> 0, progress |-> 0]

getLevelTitle(lvl) ==
    IF lvl < 4 THEN "Seedling"
    ELSE IF lvl < 8 THEN "Sprout"
    ELSE IF lvl < 13 THEN "Teenager"
    ELSE IF lvl < 17 THEN "Expert"
    ELSE "Master"

NotificationTitles == {"XPGained", "LevelUp", "EvolutionPath", "StreakRise"}

----------------------------------------------------------------------------
(* Initial state: a session just created for a topic (step 3), an idle      *)
(* gamification engine, and a profile the learner can have earned.          *)

Learner(totalXP, level, currentStreak, longestStreak, lastActivityDate, freezes) ==
    [ totalXP |-> totalXP, level |-> level,
      evolutionStage |-> EvolutionStage(level),
      currentStreak |-> currentStreak, longestStreak |-> longestStreak,
      lastActivityDate |-> lastActivityDate, streakFreezes |-> freezes ]

InitProfiles ==
    { Learner(0, 1, 0, 0, -2, 0),
      Learner(480, 1, 5, 5, -1, 0),
      Learner(9900, 5, 10, 12, 0, 0) }

\* Profiles around the stage boundary 2|3 and with a streak-freeze credit.
DashboardProfiles ==
    { Learner(480, 1, 5, 5, -1, 0),
      Learner(1100, 2, 6, 6, -1, 0),
      Learner(2400, 3, 8, 8, -2, 1),
      Learner(9900, 5, 10, 12, -2, 0) }

\* The achievements a learner with the profile has already completed.
InitAchievements(p) ==
    [ a \in AchievementIds |->
        IF \/ a = "streak_7" /\ p.longestStreak >= StreakTarget
           \/ a = "first_topic" /\ p.level > 1
        THEN [completed |-> TRUE, unlockedAt |-> EarlierDay]
        ELSE [completed |-> FALSE, unlockedAt |-> NotUnlocked] ]

IdleHandler == [pc |-> "idle", event |-> [type |-> "none", perfect |-> FALSE, session |-> FALSE],
                fetched |-> Learner(0, 1, 0, 0, 0, 0),
                next |-> Learner(0, 1, 0, 0, 0, 0),
                unlocked |-> {}, evaluatedAt |-> 0]

InitDetector ==
    /\ signals = [ semanticSimilarity |-> 10, responseTimeSeconds |-> 0,
                   baselineSeconds |-> 20, incorrectAttempts |-> 0,
                   sentimentConfusionScore |-> 0 ]
    /\ computedScore = -1

InitLocks ==
    /\ sessionVersion = [s \in Sessions |-> 0]
    /\ lockHolder = [s \in Sessions |-> 0]
    /\ transition = [r \in Requests |-> [pc |-> "idle", session |-> "s1", read |-> 0]]
    /\ sessionExplanations = [s \in Sessions |-> 0]
    /\ generationResult = [r \in Requests |-> "none"]

InitWith(profiles) ==
    /\ state = "Explanation"
    /\ reExplanationCount = 0
    /\ confusionScore = 0
    /\ perfectSession = TRUE
    /\ split = FALSE
    /\ masteryPc = "none"
    /\ resumes = 0
    /\ kgNode = [status |-> "learning", masteryPercentage |-> 0]
    /\ notified = FALSE
    /\ profile \in profiles
    /\ achievements = InitAchievements(profile)
    /\ xpTransactions = 0
    /\ handler = [h \in Handlers |-> IdleHandler]
    /\ eventsEmitted = 0
    /\ today = 0
    /\ stats = [level |-> 1, total_xp |-> 0, streak_days |-> 0]
    /\ lastStatsRef = <<>>
    /\ isFirstLoad = TRUE
    /\ notifications = [t \in NotificationTitles |-> 0]
    /\ inflight = [f \in {"poll", "refreshStats"} |-> <<>>]

NoGeneration ==
    [invocations |-> 0, tried |-> 0, provider |-> "none", error |-> "none"]

\* RAG pipeline, in percent; the composite score is in 1/10000.
DocIds == 1..12

SimilarityThreshold == 70
CandidateCount == 10
ContextCount == 3
SimilarityShare == 60
RecencyShare == 30
LevelMatchShare == 10

\* The knowledge bases the retrieval is run on: nine documents well above
\* the threshold, one on either side of it, one just above it and one
\* exactly at it; recency and level match vary on some of them.
KnowledgeBases ==
    { [d \in DocIds |->
         [similarity |-> CASE d <= 9  -> 100 - 2 * d
                           [] d = 10 -> sim10
                           [] d = 11 -> 71
                           [] OTHER  -> 70,
          recency    |-> CASE d \in {1, 2, 3} -> rec[1]
                           [] d = 4  -> rec[2]
                           [] d = 11 -> rec[3]
                           [] d = 12 -> rec[4]
                           [] OTHER  -> 50,
          levelMatch |-> CASE d = 11 -> lvl[1]
                           [] d = 5  -> lvl[2]
                           [] OTHER  -> 0]] :
        sim10 \in {69, 81}, rec \in [1..4 -> {0, 100}], lvl \in [1..2 -> {0, 100}] }

\* A composite score with the shares of similarity and recency exchanged.
CompositeScoreRecencyFirst(doc) ==
    RecencyShare * doc.similarity + SimilarityShare * doc.recency
    + LevelMatchShare * doc.levelMatch

CompositeScore(doc) ==
    SimilarityShare * doc.similarity + RecencyShare * doc.recency
    + LevelMatchShare * doc.levelMatch

\* The documents whose cosine similarity passes the threshold.
PassingFilter(kb) == { d \in DocIds : kb[d].similarity > SimilarityThreshold }

\* The candidate sets: the CandidateCount most similar passing documents.
CandidateSets(kb) ==
    LET passing == PassingFilter(kb)
        n == Min(CandidateCount, Cardinality(passing))
    IN  { C \in SUBSET passing :
            /\ Cardinality(C) = n
            /\ \A c \in C, d \in passing \ C :
                  kb[c].similarity >= kb[d].similarity }

\* The orderings of the k best of S by composite score.
RECURSIVE Rankings(_, _, _)
Rankings(kb, S, k) ==
    IF k = 0 \/ S = {}
    THEN { <<>> }
    ELSE UNION { { <<d>> \o r : r \in Rankings(kb, S \ {d}, k - 1) } :
                 d \in { b \in S : \A o \in S :
                            CompositeScore(kb[b]) >= CompositeScore(kb[o]) } }

\* BuddyAvatar after mount with autoListen: the timer of the mount effect
\* is pending.
InitVoice ==
    /\ isProcessingRef = FALSE
    /\ isStartingRef = FALSE
    /\ recognition = "inactive"
    /\ speaking = FALSE
    /\ cancelledPending = FALSE
    /\ voicesLoaded = FALSE
    /\ speakRetry = FALSE
    /\ listenTimers = 1
    /\ chats = 0

\* AuthProvider after mount with nothing in localStorage, on the signup page.
InitAuth ==
    /\ registered = {}
    /\ authCall = [op |-> "none", email |-> "none", pc |-> "idle"]
    /\ user = "none"
    /\ localStorage = [token |-> "none", learnloop_user |-> "none"]
    /\ route = "/signup"
    /\ authError = "none"
    /\ signupReturned = "none"
    /\ loginReturned = [done |-> FALSE, success |-> FALSE, error |-> "none"]
    /\ authIsLoading = FALSE

\* The room session page after mount: the Speech-to-Text effect has run
\* once, with no socket yet and Buddy Ears off.
NewRecognition(listening, ws) ==
    [status |-> "inactive", isListening |-> listening, socket |-> ws]

InitEars ==
    /\ socket = "none"
    /\ isListening = FALSE
    /\ recognitionRef = NewRecognition(FALSE, "none")
    /\ detached = {}
    /\ effectPending = FALSE
    /\ transcriptFeed = 0
    /\ sent = 0

RoomIds == {1, 2}
NoRoom == 0

\* The rooms page after mount, one room listed, none under observation.
InitRooms ==
    /\ rooms = {1}
    /\ activeRoom = NoRoom
    /\ mounted = TRUE
    /\ observations = <<>>
    /\ roomSent = 0

NoPopup == 0

\* NotificationProvider after mount.
InitNotifications ==
    /\ notificationList = <<>>
    /\ unreadCount = 0
    /\ showPopup = NoPopup
    /\ popupTimers = {}
    /\ nextNotification = 1

\* BuddyChat after mount without a session in the URL, no message yet.
InitChat ==
    /\ messages = <<>>
    /\ input = ""
    /\ chatIsLoading = FALSE
    /\ currentSessionId = "none"
    /\ submit = "idle"
    /\ submitCalls = 0

NoSession == 0

\* BuddyAvatar after mount: the recognition handlers were registered by the
\* first render, whose sessionId is null.
InitAvatar ==
    /\ sessionId = NoSession
    /\ handlerSessionId = sessionId
    /\ utterance = [pc |-> "idle", activeSessionId |-> NoSession]
    /\ sessionsCreated = 0
    /\ chatSessionIds = <<>>

\* StatsProvider after mount, before any fetch.
InitSwitch ==
    /\ fetches = 0
    /\ lastFetchOk = FALSE
    /\ baselineUser = "none"

\* The Buddy page before its first render, for any total_xp.
InitLevel(inputs) ==
    /\ pageXP \in inputs
    /\ buddyPage = NotRendered
    /\ prevRender = [xp |-> 0, correctLevel |-> 1]

InitOtherPages ==
    /\ InitSwitch
    /\ InitEars
    /\ InitRooms
    /\ InitNotifications
    /\ InitChat
    /\ InitAvatar

InitPages ==
    /\ InitLevel({0})
    /\ InitOtherPages

InitRag ==
    /\ documents \in { kb \in KnowledgeBases :
                          /\ kb[10].similarity = 81
                          /\ \A d \in DocIds : kb[d].recency <= 50 /\ kb[d].levelMatch = 0 }
    /\ retrieved = [done |-> FALSE, docs |-> <<>>]

\* The session that step 3 creates is the first one on its topic.
InitTopic ==
    /\ topicSessions = 1
    /\ topicSessionOpen = TRUE

InitExplanations ==
    /\ explanationHistory = <<>>
    /\ generation = NoGeneration

Init ==
    /\ InitWith(InitProfiles)
    /\ InitAuth
    /\ InitPages
    /\ InitVoice
    /\ InitRag
    /\ InitTopic
    /\ InitExplanations
    /\ InitDetector
    /\ InitLocks

----------------------------------------------------------------------------
(* Learning Loop Engine: the transitions of the data flow. *)

\* Fallback strategy: Bedrock, then the Gemini API, then cached responses.
ProvidersPrimaryOnly == <<"bedrock">>

Providers == <<"bedrock", "gemini", "cache">>

\* One invocation of the generator: the first provider of the chain that
\* answers, or a failure after every provider was tried.
InvocationResults ==
    { [ok |-> TRUE, tried |-> k, provider |-> Providers[k]] :
         k \in 1..Len(Providers) }
    \cup { [ok |-> FALSE, tried |-> Len(Providers), provider |-> "none"] }

\* Embedding similarity (percent) of a new explanation to the previous one.
Similarities == {60, 70}
NoveltyThreshold == 70
NoveltyRetries == 2

IsNovelInclusive(similarity) == similarity <= NoveltyThreshold

IsNovel(similarity) == similarity < NoveltyThreshold

\* The generator call from its i-th invocation on: an invocation that fails
\* ends the call with GenerationUnavailable; an explanation is accepted if
\* it is the first of the session, if it is novel, or if no retry with a
\* forced different strategy is left.
RECURSIVE Generations(_, _)
Generations(hasPrior, i) ==
    UNION { IF ~res.ok
            THEN { [invocations |-> i, tried |-> res.tried, provider |-> "none",
                    similarity |-> -1, error |-> "GenerationUnavailable"] }
            ELSE UNION { IF ~hasPrior \/ IsNovel(sim) \/ i > NoveltyRetries
                         THEN { [invocations |-> i, tried |-> res.tried,
                                 provider |-> res.provider,
                                 similarity |-> IF hasPrior THEN sim ELSE 0,
                                 error |-> "none"] }
                         ELSE Generations(hasPrior, i + 1)
                         : sim \in Similarities }
            : res \in InvocationResults }

GenerationRecord(g) ==
    [invocations |-> g.invocations, tried |-> g.tried, provider |-> g.provider,
     error |-> g.error]

\* Steps 4-6: the explanation is generated, delivered and saved; the engine
\* moves to the comprehension check.
GenerateExplanation ==
    /\ state = "Explanation"
    /\ Len(explanationHistory) < MaxExplanations
    /\ \E g \in Generations(explanationHistory # <<>>, 1) :
          /\ g.error = "none"
          /\ explanationHistory' = Append(explanationHistory, g.similarity)
          /\ generation' = GenerationRecord(g)
    /\ state' = "ComprehensionCheck"
    /\ UNCHANGED <<reExplanationCount, confusionScore, perfectSession, split>>
    /\ UNCHANGED <<masteryVars, gamVars, today, frontVars, detectorVars, lockVars, extVars>>

\* Step 5 when every provider fails: the error goes to the caller and the
\* session stays as it was.
GenerationUnavailable ==
    /\ state = "Explanation"
    /\ Len(explanationHistory) < MaxExplanations
    /\ \E g \in Generations(explanationHistory # <<>>, 1) :
          /\ g.error = "GenerationUnavailable"
          /\ generation' = GenerationRecord(g)
    /\ UNCHANGED <<sessionVars, explanationHistory>>
    /\ UNCHANGED <<masteryVars, gamVars, today, frontVars, detectorVars, lockVars, extVars>>

\* Steps 7-8: the learner answers the comprehension check.
SubmitResponse ==
    /\ state = "ComprehensionCheck"
    /\ state' = "Evaluation"
    /\ UNCHANGED <<reExplanationCount, confusionScore, perfectSession, split>>
    /\ UNCHANGED <<masteryVars, gamVars, today, frontVars, detectorVars, lockVars, explVars, extVars>>

\* Step 9: the response is evaluated; the engine moves to confusion detection.
EvaluateResponse ==
    /\ state = "Evaluation"
    /\ state' = "ConfusionDetection"
    /\ UNCHANGED <<reExplanationCount, confusionScore, perfectSession, split>>
    /\ UNCHANGED <<masteryVars, gamVars, today, frontVars, detectorVars, lockVars, explVars, extVars>>

\* Step 10: the detector computes the confusion score of the response.
DetectConfusion ==
    /\ state = "ConfusionDetection"
    /\ \E score \in Scores : confusionScore' = score
    /\ state' = "Adaptation"
    /\ UNCHANGED <<reExplanationCount, perfectSession, split>>
    /\ UNCHANGED <<masteryVars, gamVars, today, frontVars, detectorVars, lockVars, explVars, extVars>>

\* Adapt whose re-explanation leaves perfectSession alone.
AdaptKeepsPerfect ==
    /\ state = "Adaptation"
    /\ \E decision \in AdaptationDecisions(confusionScore, reExplanationCount) :
          CASE decision = "teach_back" ->
                  /\ state' = "TeachBack"
                  /\ UNCHANGED <<reExplanationCount, perfectSession, split>>
            [] decision = "hint" ->
                  /\ state' = "ComprehensionCheck"
                  /\ UNCHANGED <<reExplanationCount, perfectSession, split>>
            [] decision = "re_explain" ->
                  /\ state' = "Explanation"
                  /\ reExplanationCount' = reExplanationCount + 1
                  /\ UNCHANGED <<perfectSession, split>>
            [] decision = "split" ->
                  /\ state' = "Complete"
                  /\ split' = TRUE
                  /\ UNCHANGED <<reExplanationCount, perfectSession>>
    /\ UNCHANGED confusionScore
    /\ UNCHANGED <<masteryVars, gamVars, today, frontVars, detectorVars, lockVars, explVars, extVars>>

\* Steps 11-14: the adaptation decision and what it does to the session.
Adapt ==
    /\ state = "Adaptation"
    /\ \E decision \in AdaptationDecisions(confusionScore, reExplanationCount) :
          CASE decision = "teach_back" ->
                  /\ state' = "TeachBack"
                  /\ UNCHANGED <<reExplanationCount, perfectSession, split>>
            [] decision = "hint" ->
                  /\ state' = "ComprehensionCheck"
                  /\ UNCHANGED <<reExplanationCount, perfectSession, split>>
            [] decision = "re_explain" ->
                  /\ state' = "Explanation"
                  /\ reExplanationCount' = reExplanationCount + 1
                  /\ perfectSession' = FALSE
                  /\ UNCHANGED split
            [] decision = "split" ->
                  /\ state' = "Complete"
                  /\ split' = TRUE
                  /\ UNCHANGED <<reExplanationCount, perfectSession>>
    /\ UNCHANGED confusionScore
    /\ UNCHANGED <<masteryVars, gamVars, today, frontVars, detectorVars, lockVars, explVars, extVars>>

TeachBackScores == {7, 8, 9}

\* Step 17: the engine hands the topic_mastered event of the session to an
\* invocation of the gamification engine.
TriggerGamification(h) ==
    /\ handler[h].pc = "idle"
    /\ handler' = [handler EXCEPT
                      ![h].pc = "received",
                      ![h].event = [type |-> "topic_mastered",
                                    perfect |-> perfectSession,
                                    session |-> TRUE]]

\* Steps 15-17: the teach-back is submitted and evaluated.  Mastery moves
\* the session to mastery verification and triggers the gamification
\* engine; anything less goes back to the explanation (step 5).
EvaluateTeachBack ==
    /\ state = "TeachBack"
    /\ \E completeness \in TeachBackScores, accuracy \in TeachBackScores,
          clarity \in TeachBackScores :
          IF TeachBackMastery(completeness, accuracy, clarity)
          THEN /\ state' = "MasteryVerification"
               /\ masteryPc' = "award"
               /\ \E h \in Handlers : TriggerGamification(h)
          ELSE /\ state' = "Explanation"
               /\ UNCHANGED <<masteryPc, handler>>
    /\ UNCHANGED <<reExplanationCount, confusionScore, perfectSession, split>>
    /\ UNCHANGED <<resumes, kgNode, notified>>
    /\ UNCHANGED <<profile, xpTransactions, eventsEmitted, achievements, today, frontVars, detectorVars, lockVars, explVars, extVars>>

\* Step 20: the topic node becomes mastered at 100%.
UpdateKnowledgeGraph ==
    /\ state = "MasteryVerification"
    /\ masteryPc = "graph"
    /\ kgNode' = [status |-> "mastered", masteryPercentage |-> 100]
    /\ masteryPc' = "notify"
    /\ UNCHANGED <<sessionVars, resumes, notified, gamVars, today, frontVars, detectorVars, lockVars, explVars, extVars>>

\* Step 21: the frontend is told the XP earned and the updated graph.
NotifyFrontend ==
    /\ state = "MasteryVerification"
    /\ masteryPc = "notify"
    /\ notified' = TRUE
    /\ masteryPc' = "complete"
    /\ UNCHANGED <<sessionVars, resumes, kgNode, gamVars, today, frontVars, detectorVars, lockVars, explVars, extVars>>

\* Step 22: the session is marked complete.
CompleteSession ==
    /\ state = "MasteryVerification"
    /\ masteryPc = "complete"
    /\ state' = "Complete"
    /\ masteryPc' = "done"
    /\ UNCHANGED <<reExplanationCount, confusionScore, perfectSession, split>>
    /\ UNCHANGED <<resumes, kgNode, notified, gamVars, today, frontVars, detectorVars, lockVars, explVars, extVars>>

\* Persistence: the engine is interrupted after a mastery step and resumes
\* the incomplete cycle from the persisted state "mastery_verified", which
\* triggers the gamification engine again (step 17).
ResumeMastery ==
    /\ state = "MasteryVerification"
    /\ masteryPc \in {"graph", "notify", "complete"}
    /\ resumes < MaxResumes
    /\ resumes' = resumes + 1
    /\ masteryPc' = "award"
    /\ \E h \in Handlers : TriggerGamification(h)
    /\ UNCHANGED <<sessionVars, kgNode, notified>>
    /\ UNCHANGED <<profile, xpTransactions, eventsEmitted, achievements, today, frontVars, detectorVars, lockVars, explVars, extVars>>

----------------------------------------------------------------------------
(* Gamification Engine: the data flow of one handler invocation. *)

\* Steps 1-2: another learning activity of the learner completes and an
\* invocation of the engine receives its event.
ReceiveEvent(h) ==
    /\ handler[h].pc = "idle"
    /\ eventsEmitted < MaxEvents
    /\ \E type \in ActivityTypes, perfect \in BOOLEAN :
          handler' = [handler EXCEPT
                         ![h].pc = "received",
                         ![h].event = [type |-> type, perfect |-> perfect,
                                       session |-> FALSE]]
    /\ eventsEmitted' = eventsEmitted + 1
    /\ UNCHANGED <<sessionVars, masteryVars, profile, xpTransactions, achievements,
                   today, frontVars, detectorVars, lockVars, explVars, extVars>>

\* An event whose activity type is not a known one is refused with
\* UnknownActivityType and changes nothing.
RejectEvent(h) ==
    /\ handler[h].pc = "idle"
    /\ eventsEmitted < MaxEvents
    /\ eventsEmitted' = eventsEmitted + 1
    /\ UNCHANGED <<sessionVars, masteryVars, profile, xpTransactions, achievements, handler,
                   today, frontVars, detectorVars, lockVars, explVars, extVars>>

\* Steps 3-6: the handler fetches the profile, computes the update and
\* checks the achievements against the new stats.
FetchProfile(h) ==
    /\ handler[h].pc = "received"
    /\ LET next == ApplyEvent(profile, handler[h].event, today)
       IN  handler' = [handler EXCEPT
                         ![h].pc = "computed",
                         ![h].fetched = profile,
                         ![h].next = next,
                         ![h].unlocked = UnlockedAchievements(achievements, next,
                                                              handler[h].event),
                         ![h].evaluatedAt = today]
    /\ UNCHANGED <<sessionVars, masteryVars, profile, xpTransactions, achievements,
                   eventsEmitted, today, frontVars, detectorVars, lockVars, explVars, extVars>>

\* Step 7: the updated profile and the new achievements are saved.  For the
\* session's mastery event this is steps 18-19, after which the engine goes
\* on to the graph update.
SaveProfile(h) ==
    /\ handler[h].pc = "computed"
    /\ profile' = handler[h].next
    /\ achievements' = [a \in AchievementIds |->
                          IF a \in handler[h].unlocked
                          THEN [completed |-> TRUE,
                                unlockedAt |-> handler[h].evaluatedAt]
                          ELSE achievements[a]]
    /\ handler' = [handler EXCEPT ![h].pc = "idle"]
    /\ IF handler[h].event.session
       THEN /\ xpTransactions' = xpTransactions + 1
            /\ masteryPc' = IF masteryPc = "award" THEN "graph" ELSE masteryPc
       ELSE UNCHANGED <<xpTransactions, masteryPc>>
    /\ UNCHANGED <<sessionVars, resumes, kgNode, notified,
                   eventsEmitted, today, frontVars, detectorVars, lockVars, explVars, extVars>>

\* A calendar day passes.
AdvanceDay ==
    /\ today < MaxDay
    /\ today' = today + 1
    /\ UNCHANGED <<sessionVars, masteryVars, gamVars, frontVars, detectorVars, lockVars, explVars, extVars>>

----------------------------------------------------------------------------
(* Sessions as units of exclusive mutation: a transition request takes the  *)
(* session's lock, reads the session state, writes the next state and       *)
(* releases the lock.  The session state is counted as the number of        *)
(* transitions written.                                                     *)

RequestTransition(r, s) ==
    /\ transition[r].pc = "idle"
    /\ sessionVersion[s] < MaxTransitions
    /\ transition' = [transition EXCEPT ![r] = [pc |-> "waiting", session |-> s,
                                                read |-> 0]]
    /\ UNCHANGED <<sessionVersion, lockHolder>>
    /\ UNCHANGED <<sessionVars, masteryVars, gamVars, today, frontVars, detectorVars, explVars, extVars>>

\* AcquireSession that does not look at the lock.
AcquireSessionUnguarded(r) ==
    /\ transition[r].pc = "waiting"
    /\ lockHolder' = [lockHolder EXCEPT ![transition[r].session] = r]
    /\ transition' = [transition EXCEPT ![r].pc = "reading"]
    /\ UNCHANGED sessionVersion
    /\ UNCHANGED <<sessionVars, masteryVars, gamVars, today, frontVars, detectorVars, explVars, extVars>>

AcquireSession(r) ==
    /\ transition[r].pc = "waiting"
    /\ lockHolder[transition[r].session] = 0
    /\ lockHolder' = [lockHolder EXCEPT ![transition[r].session] = r]
    /\ transition' = [transition EXCEPT ![r].pc = "reading"]
    /\ UNCHANGED sessionVersion
    /\ UNCHANGED <<sessionVars, masteryVars, gamVars, today, frontVars, detectorVars, explVars, extVars>>

ReadSession(r) ==
    /\ transition[r].pc = "reading"
    /\ transition' = [transition EXCEPT
                         ![r].pc = "writing",
                         ![r].read = sessionVersion[transition[r].session]]
    /\ UNCHANGED <<sessionVersion, lockHolder>>
    /\ UNCHANGED <<sessionVars, masteryVars, gamVars, today, frontVars, detectorVars, explVars, extVars>>

WriteSession(r) ==
    /\ transition[r].pc = "writing"
    /\ sessionVersion' = [sessionVersion EXCEPT
                             ![transition[r].session] = transition[r].read + 1]
    /\ lockHolder' = [lockHolder EXCEPT ![transition[r].session] = 0]
    /\ transition' = [transition EXCEPT ![r].pc = "idle"]
    /\ UNCHANGED <<sessionVars, masteryVars, gamVars, today, frontVars, detectorVars, explVars, extVars>>

----------------------------------------------------------------------------
(* Transitions that need a generated explanation: the request reads the     *)
(* session under the lock, releases the lock for the duration of the        *)
(* generation call, and takes the lock again to apply the result.  The      *)
(* number of transitions written is the session's transition counter.      *)

\* The generation call is issued: the lock is released, the counter value
\* that was read stays with the request.
IssueGeneration(r) ==
    /\ transition[r].pc = "writing"
    /\ lockHolder' = [lockHolder EXCEPT ![transition[r].session] = 0]
    /\ transition' = [transition EXCEPT ![r].pc = "generating"]
    /\ generationResult' = [generationResult EXCEPT ![r] = "none"]
    /\ UNCHANGED <<sessionVersion, sessionExplanations>>
    /\ UNCHANGED genFrame

\* The generation call has returned: the request takes the lock again.
ReacquireSession(r) ==
    /\ transition[r].pc = "generating"
    /\ lockHolder[transition[r].session] = 0
    /\ lockHolder' = [lockHolder EXCEPT ![transition[r].session] = r]
    /\ transition' = [transition EXCEPT ![r].pc = "applying"]
    /\ UNCHANGED <<sessionVersion, genVars>>
    /\ UNCHANGED genFrame

\* ApplyGeneration that does not compare the transition counter.
ApplyGenerationUnchecked(r) ==
    LET s == transition[r].session
    IN  /\ transition[r].pc = "applying"
        /\ sessionVersion' = [sessionVersion EXCEPT ![s] = sessionVersion[s] + 1]
        /\ sessionExplanations' =
               [sessionExplanations EXCEPT ![s] = sessionExplanations[s] + 1]
        /\ generationResult' = [generationResult EXCEPT ![r] = "applied"]
        /\ lockHolder' = [lockHolder EXCEPT ![s] = 0]
        /\ transition' = [transition EXCEPT ![r].pc = "idle"]
    /\ UNCHANGED genFrame

\* The result is applied if the session's counter is still the one read when
\* the call was issued; otherwise it is discarded as a StaleTransition.
ApplyGeneration(r) ==
    LET s == transition[r].session
    IN  /\ transition[r].pc = "applying"
        /\ IF sessionVersion[s] = transition[r].read
           THEN /\ sessionVersion' = [sessionVersion EXCEPT ![s] = sessionVersion[s] + 1]
                /\ sessionExplanations' =
                       [sessionExplanations EXCEPT ![s] = sessionExplanations[s] + 1]
                /\ generationResult' = [generationResult EXCEPT ![r] = "applied"]
           ELSE /\ generationResult' = [generationResult EXCEPT ![r] = "StaleTransition"]
                /\ UNCHANGED <<sessionVersion, sessionExplanations>>
        /\ lockHolder' = [lockHolder EXCEPT ![s] = 0]
        /\ transition' = [transition EXCEPT ![r].pc = "idle"]
    /\ UNCHANGED genFrame

----------------------------------------------------------------------------
(* Knowledge graph: the update logic of one topic node over the sessions    *)
(* the learner starts on the topic.                                         *)

\* What a passed comprehension check may add to the mastery percentage.
CheckGains == {5, 10, 20}

\* "When a topic is started, node status changes to learning."
StartTopic ==
    /\ ~topicSessionOpen
    /\ topicSessions < MaxSessions
    /\ topicSessions' = topicSessions + 1
    /\ topicSessionOpen' = TRUE
    /\ kgNode' = [kgNode EXCEPT !.status = "learning"]
    /\ UNCHANGED topicFrame

\* "As comprehension checks are passed, mastery percentage increases."
PassComprehensionCheck ==
    /\ topicSessionOpen
    /\ \E gain \in CheckGains :
          kgNode' = [kgNode EXCEPT
                        !.masteryPercentage = Min(100, kgNode.masteryPercentage + gain)]
    /\ UNCHANGED <<topicVars, topicFrame>>

\* "When teach-back succeeds, node status changes to mastered" (step 20:
\* at 100%); the session ends.
MasterTopic ==
    /\ topicSessionOpen
    /\ kgNode' = [status |-> "mastered", masteryPercentage |-> 100]
    /\ topicSessionOpen' = FALSE
    /\ UNCHANGED <<topicSessions, topicFrame>>

\* The learner leaves the session without mastering the topic.
AbandonTopicSession ==
    /\ topicSessionOpen
    /\ topicSessionOpen' = FALSE
    /\ UNCHANGED <<kgNode, topicSessions, topicFrame>>

----------------------------------------------------------------------------
(* RAG pipeline: retrieval for one query over a knowledge base of twelve    *)
(* documents.  Similarity, recency and level match are in percent, the      *)
(* composite score in 1/10000.                                              *)

\* Documents are ingested into the knowledge base.
IndexDocuments ==
    /\ \E kb \in KnowledgeBases : documents' = kb
    /\ retrieved' = [done |-> FALSE, docs |-> <<>>]
    /\ UNCHANGED ragFrame

\* Retrieval strategy: top candidates by similarity above the threshold,
\* ranked by the composite score, the top three returned.
Retrieve ==
    /\ ~retrieved.done
    /\ \E C \in CandidateSets(documents) :
          \E r \in Rankings(documents, C, ContextCount) :
             retrieved' = [done |-> TRUE, docs |-> r]
    /\ UNCHANGED <<documents, ragFrame>>

----------------------------------------------------------------------------
(* BuddyAvatar with autoListen: the handlers set up at mount.  They keep    *)
(* the closures of the first render, so speak sees audioEnabled = true; the *)
(* learner is signed in and the browser supports recognition and synthesis. *)

\* setTimeout(() => startListening(), ...): one more timer is pending.
Schedule(n) == Min(n + 1, MaxTimers)

\* startListening that ignores isProcessingRef.
startListeningUnguarded ==
    IF isStartingRef
    THEN UNCHANGED <<isStartingRef, recognition>>
    ELSE IF recognition = "inactive"
         THEN isStartingRef' = TRUE /\ recognition' = "starting"
         ELSE isStartingRef' = FALSE /\ UNCHANGED recognition

\* startListening: nothing while starting or processing; otherwise
\* recognition.start(), which throws unless the recognition is inactive.
startListening ==
    IF isStartingRef \/ isProcessingRef
    THEN UNCHANGED <<isStartingRef, recognition>>
    ELSE IF recognition = "inactive"
         THEN isStartingRef' = TRUE /\ recognition' = "starting"
         ELSE isStartingRef' = FALSE /\ UNCHANGED recognition

\* A timer set by onend, onerror, speak or handleUserSpeech fires.
ListenTimerFires ==
    /\ listenTimers > 0
    /\ listenTimers' = listenTimers - 1
    /\ startListening
    /\ UNCHANGED <<isProcessingRef, speaking, cancelledPending, voicesLoaded,
                   speakRetry, chats>>
    /\ UNCHANGED voiceFrame

\* recognition.onstart
onstart ==
    /\ recognition = "starting"
    /\ recognition' = "listening"
    /\ isStartingRef' = TRUE
    /\ UNCHANGED <<isProcessingRef, speaking, cancelledPending, voicesLoaded,
                   speakRetry, listenTimers, chats>>
    /\ UNCHANGED voiceFrame

\* recognition.onresult with handleUserSpeech up to its first await: the
\* utterance is dropped while another one is processed.
onresult ==
    /\ recognition = "listening"
    /\ recognition' = "ending"
    /\ isStartingRef' = FALSE
    /\ IF isProcessingRef
       THEN UNCHANGED <<isProcessingRef, chats>>
       ELSE /\ chats < MaxChats
            /\ isProcessingRef' = TRUE
            /\ chats' = chats + 1
    /\ UNCHANGED <<speaking, cancelledPending, voicesLoaded, speakRetry, listenTimers>>
    /\ UNCHANGED voiceFrame

RecognitionErrors == {"no-speech", "network", "not-allowed"}

\* recognition.onerror
onerror(error) ==
    /\ recognition \in {"starting", "listening"}
    /\ recognition' = "ending"
    /\ isStartingRef' = FALSE
    /\ listenTimers' = IF error \in {"network", "no-speech"} /\ ~isProcessingRef
                       THEN Schedule(listenTimers) ELSE listenTimers
    /\ UNCHANGED <<isProcessingRef, speaking, cancelledPending, voicesLoaded,
                   speakRetry, chats>>
    /\ UNCHANGED voiceFrame

\* recognition.onend
onend ==
    /\ recognition \in {"listening", "ending"}
    /\ recognition' = "inactive"
    /\ isStartingRef' = FALSE
    /\ listenTimers' = IF ~isProcessingRef THEN Schedule(listenTimers) ELSE listenTimers
    /\ UNCHANGED <<isProcessingRef, speaking, cancelledPending, voicesLoaded,
                   speakRetry, chats>>
    /\ UNCHANGED voiceFrame

\* speak: what is being spoken is cancelled; without voices speak is called
\* again after 100 ms, otherwise the utterance is spoken.
speak ==
    /\ cancelledPending' = (cancelledPending \/ speaking)
    /\ speaking' = voicesLoaded
    /\ speakRetry' = (speakRetry \/ ~voicesLoaded)

ChatOutcomes == {"ok", "429", "error"}

\* handleUserSpeech after the chat request: the reply, the rate-limit
\* message or the error message is spoken.
handleUserSpeech(outcome) ==
    /\ chats > 0
    /\ chats' = chats - 1
    /\ speak
    /\ isProcessingRef' = IF outcome = "ok" THEN isProcessingRef ELSE FALSE
    /\ listenTimers' = IF outcome = "error" THEN Schedule(listenTimers) ELSE listenTimers
    /\ UNCHANGED <<isStartingRef, recognition, voicesLoaded>>
    /\ UNCHANGED voiceFrame

\* The 100 ms timer of speak fires.
SpeakRetryFires ==
    /\ speakRetry
    /\ cancelledPending' = (cancelledPending \/ speaking)
    /\ speaking' = voicesLoaded
    /\ speakRetry' = ~voicesLoaded
    /\ UNCHANGED <<isProcessingRef, isStartingRef, recognition, voicesLoaded,
                   listenTimers, chats>>
    /\ UNCHANGED voiceFrame

\* An end of the utterance that neither clears the flag nor sets a timer.
UtteranceEndsSilently ==
    /\ speaking
    /\ speaking' = FALSE
    /\ UNCHANGED <<isProcessingRef, listenTimers>>
    /\ UNCHANGED <<isStartingRef, recognition, cancelledPending, voicesLoaded,
                   speakRetry, chats>>
    /\ UNCHANGED voiceFrame

\* utterance.onend or utterance.onerror of the utterance being spoken.
UtteranceEnds ==
    /\ speaking
    /\ speaking' = FALSE
    /\ isProcessingRef' = FALSE
    /\ listenTimers' = Schedule(listenTimers)
    /\ UNCHANGED <<isStartingRef, recognition, cancelledPending, voicesLoaded,
                   speakRetry, chats>>
    /\ UNCHANGED voiceFrame

\* utterance.onerror of an utterance that synth.cancel() interrupted.
CancelledUtteranceEnds ==
    /\ cancelledPending
    /\ cancelledPending' = FALSE
    /\ isProcessingRef' = FALSE
    /\ listenTimers' = Schedule(listenTimers)
    /\ UNCHANGED <<isStartingRef, recognition, speaking, voicesLoaded,
                   speakRetry, chats>>
    /\ UNCHANGED voiceFrame

\* The browser has loaded its voices.
VoicesLoad ==
    /\ ~voicesLoaded
    /\ voicesLoaded' = TRUE
    /\ UNCHANGED <<isProcessingRef, isStartingRef, recognition, speaking,
                   cancelledPending, speakRetry, listenTimers, chats>>
    /\ UNCHANGED voiceFrame

----------------------------------------------------------------------------
(* AuthProvider: signup, login and logout, one call at a time, against a    *)
(* backend whose requests may fail.                                         *)

Emails == {"ada@x", "bob@x"}

NoCall == [op |-> "none", email |-> "none", pc |-> "idle"]

\* login from its request on; `ok` is the answer of /auth/login.  A failed
\* login sets the error and returns {success: false} without throwing.
loginResponseDroppingToken(ok) ==
    IF ok
    THEN /\ localStorage' = [localStorage EXCEPT !.token = authCall.email]
         /\ authCall' = [authCall EXCEPT !.pc = "profile"]
         /\ UNCHANGED <<authError, signupReturned, loginReturned, authIsLoading>>
    ELSE /\ authError' = "Login failed"
         /\ loginReturned' = [done |-> TRUE, success |-> FALSE, error |-> "Login failed"]
         /\ authIsLoading' = FALSE
         /\ authCall' = NoCall
         /\ signupReturned' = IF authCall.op = "signup" THEN "true" ELSE signupReturned
         /\ localStorage' = [localStorage EXCEPT !.token = "none"]

loginResponse(ok) ==
    IF ok
    THEN /\ localStorage' = [localStorage EXCEPT !.token = authCall.email]
         /\ authCall' = [authCall EXCEPT !.pc = "profile"]
         /\ UNCHANGED <<authError, signupReturned, loginReturned, authIsLoading>>
    ELSE /\ authError' = "Login failed"
         /\ loginReturned' = [done |-> TRUE, success |-> FALSE, error |-> "Login failed"]
         /\ authIsLoading' = FALSE
         /\ authCall' = NoCall
         /\ signupReturned' = IF authCall.op = "signup" THEN "true" ELSE signupReturned
         /\ UNCHANGED localStorage

\* signup up to its request to /auth/register.
signup(email) ==
    /\ authCall.pc = "idle"
    /\ authCall' = [op |-> "signup", email |-> email, pc |-> "register"]
    /\ authError' = "none"
    /\ signupReturned' = "pending"
    /\ authIsLoading' = TRUE
    /\ UNCHANGED <<registered, user, localStorage, route, loginReturned>>
    /\ UNCHANGED authFrame

\* /auth/register answers: the account is created, or the request is
\* refused (the email is taken, the backend is down); signup goes on to
\* login or returns false.
RegisterResponds(ok) ==
    /\ authCall.pc = "register"
    /\ ok => authCall.email \notin registered
    /\ IF ok
       THEN /\ registered' = registered \cup {authCall.email}
            /\ authCall' = [authCall EXCEPT !.pc = "login"]
            /\ loginReturned' = [done |-> FALSE, success |-> FALSE, error |-> "none"]
            /\ UNCHANGED <<authError, signupReturned, authIsLoading>>
       ELSE /\ authError' = "Signup failed"
            /\ signupReturned' = "false"
            /\ authIsLoading' = FALSE
            /\ authCall' = NoCall
            /\ UNCHANGED <<registered, loginReturned>>
    /\ UNCHANGED <<user, localStorage, route>>
    /\ UNCHANGED authFrame

\* login called from the login page.
login(email) ==
    /\ authCall.pc = "idle"
    /\ authCall' = [op |-> "login", email |-> email, pc |-> "login"]
    /\ authError' = "none"
    /\ authIsLoading' = TRUE
    /\ loginReturned' = [done |-> FALSE, success |-> FALSE, error |-> "none"]
    /\ UNCHANGED <<registered, user, localStorage, route, signupReturned>>
    /\ UNCHANGED authFrame

\* /auth/login answers.
LoginResponds(ok) ==
    /\ authCall.pc = "login"
    /\ ok => authCall.email \in registered
    /\ loginResponse(ok)
    /\ UNCHANGED <<registered, user, route>>
    /\ UNCHANGED authFrame

\* The profile request of login is over (its failure is only logged): the
\* user is set and stored, the router is sent to "/", login returns
\* {success: true} and a signup that called it returns true.
ProfileResponds ==
    /\ authCall.pc = "profile"
    /\ user' = authCall.email
    /\ localStorage' = [localStorage EXCEPT !.learnloop_user = authCall.email]
    /\ route' = "/"
    /\ signupReturned' = IF authCall.op = "signup" THEN "true" ELSE signupReturned
    /\ loginReturned' = [done |-> TRUE, success |-> TRUE, error |-> "none"]
    /\ authIsLoading' = FALSE
    /\ authCall' = NoCall
    /\ UNCHANGED <<registered, authError>>
    /\ UNCHANGED authFrame

logout ==
    /\ authCall.pc = "idle"
    /\ user # "none"
    /\ user' = "none"
    /\ localStorage' = [token |-> "none", learnloop_user |-> "none"]
    /\ route' = "/login"
    /\ UNCHANGED <<registered, authCall, authError, signupReturned, loginReturned,
                   authIsLoading>>
    /\ UNCHANGED authFrame

----------------------------------------------------------------------------
(* Confusion detector: one response after the other. *)

\* Step 8: a response is submitted and its signals are collected.
CollectSignals ==
    /\ \E sig \in SignalTuples : signals' = sig
    /\ computedScore' = -1
    /\ UNCHANGED <<sessionVars, masteryVars, gamVars, today, frontVars, lockVars, explVars, extVars>>

\* Step 10: the detector computes the confusion score of the signals.
ComputeConfusionScore ==
    /\ computedScore = -1
    /\ computedScore' = ConfusionScore(signals)
    /\ UNCHANGED signals
    /\ UNCHANGED <<sessionVars, masteryVars, gamVars, today, frontVars, lockVars, explVars, extVars>>

----------------------------------------------------------------------------
(* Frontend: StatsProvider.fetchStats with an OK response. *)

\* The profile as the /profile endpoint returns it.
ProfileResponse ==
    [level |-> profile.level, total_xp |-> profile.totalXP,
     streak_days |-> profile.currentStreak]

\* fetchStats from the response on: the comparison with the previous stats,
\* the notifications and the update of lastStatsRef.
ProcessStats(newStats) ==
    LET Add(cond) == IF cond THEN 1 ELSE 0
    IN  /\ IF ~isFirstLoad /\ lastStatsRef # <<>>
           THEN LET prev     == lastStatsRef[1]
                    oldTitle == getLevelTitle(prev.level)
                    newTitle == getLevelTitle(newStats.level)
                IN  notifications' =
                      [ XPGained      |-> notifications.XPGained
                                          + Add(newStats.total_xp > prev.total_xp),
                        LevelUp       |-> notifications.LevelUp
                                          + Add(newStats.level > prev.level),
                        EvolutionPath |-> notifications.EvolutionPath
                                          + Add(oldTitle # newTitle
                                                /\ newStats.level > prev.level),
                        StreakRise    |-> notifications.StreakRise
                                          + Add(newStats.streak_days > prev.streak_days) ]
           ELSE UNCHANGED notifications
        /\ lastStatsRef' = <<newStats>>
        /\ stats' = newStats
        /\ isFirstLoad' = FALSE

\* A fetchStats call that no other call overlaps.
fetchStats ==
    /\ ProcessStats(ProfileResponse)
    /\ UNCHANGED inflight
    /\ UNCHANGED <<sessionVars, masteryVars, gamVars, today, detectorVars, lockVars, explVars, extVars>>

\* The callers of fetchStats that may overlap: the 30 s poll and
\* refreshStats (BuddyChat, BuddyAvatar, ChatPage.handleXPUpdate).
Fetchers == {"poll", "refreshStats"}

\* fetchStats up to its await: the request is answered from the profile.
fetchStatsRequest(f) ==
    /\ inflight[f] = <<>>
    /\ inflight' = [inflight EXCEPT ![f] = <<ProfileResponse>>]
    /\ UNCHANGED <<stats, lastStatsRef, isFirstLoad, notifications>>
    /\ UNCHANGED <<sessionVars, masteryVars, gamVars, today, detectorVars, lockVars, explVars, extVars>>

\* fetchStats after its await: the response is processed.
fetchStatsResponse(f) ==
    /\ inflight[f] # <<>>
    /\ ProcessStats(inflight[f][1])
    /\ inflight' = [inflight EXCEPT ![f] = <<>>]
    /\ UNCHANGED <<sessionVars, masteryVars, gamVars, today, detectorVars, lockVars, explVars, extVars>>

----------------------------------------------------------------------------

\* The learning session with its mastery steps.
Next ==
    \/ GenerateExplanation
    \/ GenerationUnavailable
    \/ SubmitResponse
    \/ EvaluateResponse
    \/ DetectConfusion
    \/ Adapt
    \/ EvaluateTeachBack
    \/ \E h \in Handlers : FetchProfile(h)
    \/ \E h \in Handlers : SaveProfile(h)
    \/ UpdateKnowledgeGraph
    \/ NotifyFrontend
    \/ CompleteSession
    \/ ResumeMastery

Spec == Init /\ [][Next]_vars

\* The gamification engine under concurrent activity events of one learner.
\* Sessions meet the other activities of the
\* learner only at the profile record, so the session stays where it is.
GamNext ==
    \/ \E h \in Handlers : ReceiveEvent(h)
    \/ \E h \in Handlers : RejectEvent(h)
    \/ \E h \in Handlers : FetchProfile(h)
    \/ \E h \in Handlers : SaveProfile(h)
    \/ AdvanceDay

GamSpec == Init /\ [][GamNext]_vars

\* The profile as the dashboard sees it: the learner's events are handled
\* one after the other and the StatsProvider polls the profile.
StatsInit ==
    /\ InitWith(DashboardProfiles)
    /\ InitAuth
    /\ InitPages
    /\ InitVoice
    /\ InitRag
    /\ InitTopic
    /\ InitExplanations
    /\ InitDetector
    /\ InitLocks

StatsNext ==
    \/ ReceiveEvent(1)
    \/ RejectEvent(1)
    \/ FetchProfile(1)
    \/ SaveProfile(1)
    \/ AdvanceDay
    \/ fetchStats

StatsSpec == StatsInit /\ [][StatsNext]_vars

\* The confusion detector run on a sequence of responses.
DetectorNext ==
    \/ CollectSignals
    \/ ComputeConfusionScore

DetectorSpec == Init /\ [][DetectorNext]_vars

\* Concurrent transition requests on two sessions of one learner.
LockNext ==
    \/ \E r \in Requests, s \in Sessions : RequestTransition(r, s)
    \/ \E r \in Requests : AcquireSession(r)
    \/ \E r \in Requests : ReadSession(r)
    \/ \E r \in Requests : WriteSession(r)

LockSpec == Init /\ [][LockNext]_vars

\* Two of the requests, some of their transitions generating an
\* explanation.
GenRequests == {1, 2}

GenNext ==
    \/ \E r \in GenRequests, s \in Sessions : RequestTransition(r, s)
    \/ \E r \in GenRequests : AcquireSession(r)
    \/ \E r \in GenRequests : ReadSession(r)
    \/ \E r \in GenRequests : WriteSession(r)
    \/ \E r \in GenRequests : IssueGeneration(r)
    \/ \E r \in GenRequests : ReacquireSession(r)
    \/ \E r \in GenRequests : ApplyGeneration(r)

GenSpec == Init /\ [][GenNext]_vars

\* The dashboard with fetchStats calls that overlap, while one gamification
\* handler applies the learner's events.
PollNext ==
    \/ ReceiveEvent(1)
    \/ FetchProfile(1)
    \/ SaveProfile(1)
    \/ AdvanceDay
    \/ \E f \in Fetchers : fetchStatsRequest(f)
    \/ \E f \in Fetchers : fetchStatsResponse(f)

PollSpec == Init /\ [][PollNext]_vars

\* The voice avatar with autoListen.
VoiceNext ==
    \/ ListenTimerFires
    \/ onstart
    \/ onresult
    \/ \E error \in RecognitionErrors : onerror(error)
    \/ onend
    \/ \E outcome \in ChatOutcomes : handleUserSpeech(outcome)
    \/ SpeakRetryFires
    \/ UtteranceEnds
    \/ CancelledUtteranceEnds
    \/ VoicesLoad

VoiceSpec == Init /\ [][VoiceNext]_vars

\* Timers fire and the events of the browser are delivered: a started
\* recognition starts and ends, a chat request is answered, the voices get
\* loaded, an utterance ends.
VoiceFairSpec ==
    /\ VoiceSpec
    /\ WF_vars(ListenTimerFires)
    /\ WF_vars(onstart)
    /\ WF_vars(onend)
    /\ WF_vars(\E outcome \in ChatOutcomes : handleUserSpeech(outcome))
    /\ WF_vars(SpeakRetryFires)
    /\ WF_vars(UtteranceEnds)
    /\ WF_vars(CancelledUtteranceEnds)
    /\ WF_vars(VoicesLoad)

\* Sign-ups, logins and logouts.
AuthNext ==
    \/ \E email \in Emails : signup(email)
    \/ \E ok \in BOOLEAN : RegisterResponds(ok)
    \/ \E email \in Emails : login(email)
    \/ \E ok \in BOOLEAN : LoginResponds(ok)
    \/ ProfileResponds
    \/ logout

AuthSpec == Init /\ [][AuthNext]_vars

\* Retrievals over the knowledge bases.
RagNext ==
    \/ IndexDocuments
    \/ Retrieve

RagSpec == Init /\ [][RagNext]_vars

\* The node of one topic over the sessions started on the topic.
TopicNext ==
    \/ StartTopic
    \/ PassComprehensionCheck
    \/ MasterTopic
    \/ AbandonTopicSession

TopicSpec == Init /\ [][TopicNext]_vars

----------------------------------------------------------------------------
(* Room session page (rooms/[roomId]): Buddy Ears. *)

TranscriptLengths == {5, 6}
MinTranscriptLength == 5
FeedLength == 10

\* The WebSocket effect: the socket is created and put into the page state.
SocketOpens ==
    /\ socket = "none"
    /\ socket' = "open"
    /\ effectPending' = TRUE
    /\ UNCHANGED <<isListening, recognitionRef, detached, transcriptFeed, sent, earsFrame>>

\* toggleListening of the render whose effects have run.
toggleListening ==
    /\ ~effectPending
    /\ IF isListening
         THEN /\ recognitionRef' =
                   IF recognitionRef.status = "active"
                   THEN [recognitionRef EXCEPT !.status = "stopping"]
                   ELSE recognitionRef
              /\ isListening' = FALSE
              /\ effectPending' = TRUE
         ELSE IF recognitionRef.status = "inactive"
              THEN /\ recognitionRef' = [recognitionRef EXCEPT !.status = "active"]
                   /\ isListening' = TRUE
                   /\ effectPending' = TRUE
              ELSE UNCHANGED <<recognitionRef, isListening, effectPending>>
    /\ UNCHANGED <<socket, detached, transcriptFeed, sent, earsFrame>>

\* The Speech-to-Text effect re-runs after socket or isListening changed: its
\* cleanup stops the instance in recognitionRef, then a new instance with
\* handlers closed over the new socket and isListening replaces it.
SpeechToTextEffect ==
    /\ effectPending
    /\ detached' = IF recognitionRef.status = "inactive"
                   THEN detached
                   ELSE detached \cup {[recognitionRef EXCEPT !.status = "stopping"]}
    /\ recognitionRef' = NewRecognition(isListening, socket)
    /\ effectPending' = FALSE
    /\ UNCHANGED <<socket, isListening, transcriptFeed, sent, earsFrame>>

\* The instances that can still deliver events.
LiveRecognitions ==
    {r \in detached \cup {recognitionRef} : r.status # "inactive"}

\* onresult of an instance with a final transcript of the given length.
EarsResult(r, len) ==
    /\ r \in LiveRecognitions
    /\ sent < MaxSent
    /\ transcriptFeed' = IF transcriptFeed < FeedLength THEN transcriptFeed + 1
                         ELSE FeedLength
    /\ sent' = IF r.socket = "open" /\ len > MinTranscriptLength THEN sent + 1 ELSE sent
    /\ UNCHANGED <<socket, isListening, recognitionRef, detached, effectPending, earsFrame>>

\* onend of an instance: it starts itself again when the isListening its
\* handler closed over is true.
EarsEnd(r) ==
    /\ r \in LiveRecognitions
    /\ IF r = recognitionRef
         THEN /\ recognitionRef' =
                   [r EXCEPT !.status = IF r.isListening THEN "active" ELSE "inactive"]
              /\ UNCHANGED detached
         ELSE /\ detached' =
                   IF r.isListening
                   THEN (detached \ {r}) \cup {[r EXCEPT !.status = "active"]}
                   ELSE detached \ {r}
              /\ UNCHANGED recognitionRef
    /\ UNCHANGED <<socket, isListening, effectPending, transcriptFeed, sent, earsFrame>>

EarsNext ==
    \/ SocketOpens
    \/ toggleListening
    \/ SpeechToTextEffect
    \/ \E r \in LiveRecognitions, len \in TranscriptLengths : EarsResult(r, len)
    \/ \E r \in LiveRecognitions : EarsEnd(r)

EarsSpec == Init /\ [][EarsNext]_vars

----------------------------------------------------------------------------
(* Rooms page (rooms): background observation of the active room. *)

\* Cleanup of the observation effect's latest run: ws.close() and
\* recognition.stop().
ObservationCleanup(obs) ==
    IF obs = <<>> \/ obs[Len(obs)].ws = "closed"
    THEN obs
    ELSE [obs EXCEPT ![Len(obs)] = [@ EXCEPT !.ws = "closed", !.recognition = "stopping"]]

\* The body of the observation effect for a room: a WebSocket for the room
\* and a started recognition instance.
ObservationEffect(obs, room) ==
    IF room = NoRoom THEN obs
    ELSE Append(obs, [room |-> room, ws |-> "open", recognition |-> "active"])

\* setActiveRoom(room) with the effect re-run it causes.
setActiveRoom(room) ==
    /\ activeRoom' = room
    /\ observations' = ObservationEffect(ObservationCleanup(observations), room)

joinRoom(room) ==
    /\ mounted
    /\ room \in rooms
    /\ Len(observations) < MaxObservations
    /\ setActiveRoom(room)
    /\ UNCHANGED <<rooms, mounted, roomSent, roomsFrame>>

\* handleCreateRoom with an OK answer: the creator joins the new room.
handleCreateRoom(room) ==
    /\ mounted
    /\ room \in RoomIds \ rooms
    /\ Len(observations) < MaxObservations
    /\ rooms' = rooms \cup {room}
    /\ setActiveRoom(room)
    /\ UNCHANGED <<mounted, roomSent, roomsFrame>>

\* deleteRoom with an OK answer.
deleteRoom(id) ==
    /\ mounted
    /\ id \in rooms
    /\ rooms' = rooms \ {id}
    /\ IF activeRoom = id
         THEN setActiveRoom(NoRoom)
         ELSE UNCHANGED <<activeRoom, observations>>
    /\ UNCHANGED <<mounted, roomSent, roomsFrame>>

\* The page unmounts: the effect's cleanup runs.
RoomsUnmount ==
    /\ mounted
    /\ mounted' = FALSE
    /\ observations' = ObservationCleanup(observations)
    /\ UNCHANGED <<rooms, activeRoom, roomSent, roomsFrame>>

\* recognition.onresult of a run with a final transcript: sent when the
\* run's WebSocket is open.
RoomResult(i) ==
    /\ i \in DOMAIN observations
    /\ observations[i].recognition # "inactive"
    /\ observations[i].ws = "open"
    /\ roomSent < MaxSent
    /\ roomSent' = roomSent + 1
    /\ UNCHANGED <<rooms, activeRoom, mounted, observations, roomsFrame>>

\* recognition.onend of a stopped run: activeRoom in the handler is the room
\* the run was created for, so the instance starts again.
RoomRecognitionEnd(i) ==
    /\ i \in DOMAIN observations
    /\ observations[i].recognition = "stopping"
    /\ observations' = [observations EXCEPT ![i].recognition =
                            IF observations[i].room # NoRoom THEN "active" ELSE "inactive"]
    /\ UNCHANGED <<rooms, activeRoom, mounted, roomSent, roomsFrame>>

RoomsNext ==
    \/ \E room \in RoomIds : joinRoom(room)
    \/ \E room \in RoomIds : handleCreateRoom(room)
    \/ \E id \in RoomIds : deleteRoom(id)
    \/ RoomsUnmount
    \/ \E i \in 1..MaxObservations : RoomResult(i)
    \/ \E i \in 1..MaxObservations : RoomRecognitionEnd(i)

RoomsSpec == Init /\ [][RoomsNext]_vars

----------------------------------------------------------------------------
(* NotificationProvider. *)

\* prev.filter(n => n.id !== id)
FilterOut(list, id) ==
    SelectSeq(list, LAMBDA n : n # id)

Listed == {notificationList[i] : i \in DOMAIN notificationList}

\* addNotification: the new notification gets a fresh id, goes to the head of
\* the list and into the popup, and its auto-hide timer is started.
addNotification ==
    /\ nextNotification <= MaxNotifications
    /\ notificationList' = <<nextNotification>> \o notificationList
    /\ unreadCount' = unreadCount + 1
    /\ showPopup' = nextNotification
    /\ popupTimers' = popupTimers \cup {nextNotification}
    /\ nextNotification' = nextNotification + 1
    /\ UNCHANGED notifFrame

\* A timer that hides whatever popup is shown.
PopupTimerFiresUnconditional(n) ==
    /\ n \in popupTimers
    /\ popupTimers' = popupTimers \ {n}
    /\ showPopup' = NoPopup
    /\ UNCHANGED <<notificationList, unreadCount, nextNotification, notifFrame>>

\* The auto-hide timer of notification n fires after 5 seconds.
PopupTimerFires(n) ==
    /\ n \in popupTimers
    /\ popupTimers' = popupTimers \ {n}
    /\ showPopup' = IF showPopup = n THEN NoPopup ELSE showPopup
    /\ UNCHANGED <<notificationList, unreadCount, nextNotification, notifFrame>>

\* removeNotification, called from a row of the list or from the popup.
removeNotification(id) ==
    /\ id \in Listed
    /\ notificationList' = FilterOut(notificationList, id)
    /\ showPopup' = IF showPopup = id THEN NoPopup ELSE showPopup
    /\ UNCHANGED <<unreadCount, popupTimers, nextNotification, notifFrame>>

clearNotifications ==
    /\ notificationList # <<>>
    /\ notificationList' = <<>>
    /\ unreadCount' = 0
    /\ showPopup' = NoPopup
    /\ UNCHANGED <<popupTimers, nextNotification, notifFrame>>

clearUnread ==
    /\ unreadCount # 0
    /\ unreadCount' = 0
    /\ UNCHANGED <<notificationList, showPopup, popupTimers, nextNotification, notifFrame>>

dismissPopup ==
    /\ showPopup # NoPopup
    /\ showPopup' = NoPopup
    /\ UNCHANGED <<notificationList, unreadCount, popupTimers, nextNotification, notifFrame>>

NotifNext ==
    \/ addNotification
    \/ \E n \in 1..MaxNotifications : PopupTimerFires(n)
    \/ \E id \in 1..MaxNotifications : removeNotification(id)
    \/ clearNotifications
    \/ clearUnread
    \/ dismissPopup

NotifSpec == Init /\ [][NotifNext]_vars

----------------------------------------------------------------------------
(* BuddyChat: handleSubmit. *)

Inputs == {"", "  ", "why"}
ChatUsers == {"none", "ada@x"}

\* input.trim()
Trim(text) == IF text = "  " THEN "" ELSE text

\* The input field is edited; it is disabled while isLoading.
setInput(text) ==
    /\ ~chatIsLoading
    /\ text # input
    /\ input' = text
    /\ UNCHANGED <<messages, chatIsLoading, currentSessionId, submit, submitCalls, chatFrame>>

\* handleSubmit up to its first await, for the user of the current render.
handleSubmit(u) ==
    /\ submit = "idle"
    /\ submitCalls < MaxSubmits
    /\ submitCalls' = submitCalls + 1
    /\ IF Trim(input) = "" \/ u = "none"
         THEN UNCHANGED <<messages, input, chatIsLoading, submit>>
         ELSE /\ messages' = Append(messages, "user")
              /\ input' = ""
              /\ chatIsLoading' = TRUE
              /\ submit' = IF currentSessionId = "none" THEN "session" ELSE "chat"
    /\ UNCHANGED <<currentSessionId, chatFrame>>

SessionOutcomes == {"created", "refused", "threw"}

\* A failed session creation that ends the submit.
SessionRespondsAborting(outcome) ==
    /\ submit = "session"
    /\ IF outcome = "created"
         THEN currentSessionId' = "session" /\ submit' = "chat"
         ELSE UNCHANGED currentSessionId /\ submit' = "idle"
    /\ UNCHANGED <<messages, input, chatIsLoading, submitCalls, chatFrame>>

\* POST /buddy/sessions answers or throws: the failure is logged and the
\* submit goes on to the chat request without a session.
SessionResponds(outcome) ==
    /\ submit = "session"
    /\ currentSessionId' = IF outcome = "created" THEN "session" ELSE currentSessionId
    /\ submit' = "chat"
    /\ UNCHANGED <<messages, input, chatIsLoading, submitCalls, chatFrame>>

ChatResponses == {"ok", "429", "failed"}

\* The model message that handleSubmit appends for a response.
ChatReply(response) ==
    CASE response = "ok"  -> "reply"
      [] response = "429" -> "rate-limit notice"
      [] OTHER            -> "error notice"

ModelMessages == {ChatReply(response) : response \in ChatResponses}

\* POST /buddy/chat answers or throws.
ChatResponds(response) ==
    /\ submit = "chat"
    /\ messages' = Append(messages, ChatReply(response))
    /\ chatIsLoading' = FALSE
    /\ submit' = "idle"
    /\ UNCHANGED <<input, currentSessionId, submitCalls, chatFrame>>

ChatNext ==
    \/ \E text \in Inputs : setInput(text)
    \/ \E u \in ChatUsers : handleSubmit(u)
    \/ \E outcome \in SessionOutcomes : SessionResponds(outcome)
    \/ \E response \in ChatResponses : ChatResponds(response)

ChatSpec == Init /\ [][ChatNext]_vars

----------------------------------------------------------------------------
(* BuddyAvatar: the chat session of the voice avatar. *)

\* recognition.onresult calls the handleUserSpeech of the render that
\* registered it: up to the first await, "Create session if needed".
UtteranceRecognized ==
    /\ utterance.pc = "idle"
    /\ Len(chatSessionIds) < MaxUtterances
    /\ utterance' = [pc |-> IF handlerSessionId = NoSession THEN "session" ELSE "chat",
                     activeSessionId |-> handlerSessionId]
    /\ UNCHANGED <<sessionId, handlerSessionId, sessionsCreated, chatSessionIds, avatarFrame>>

\* POST /buddy/sessions answers: a created session becomes the sessionId of
\* the next render; a failure is logged.
AvatarSessionResponds(ok) ==
    /\ utterance.pc = "session"
    /\ IF ok
         THEN /\ sessionsCreated' = sessionsCreated + 1
              /\ sessionId' = sessionsCreated + 1
              /\ utterance' = [pc |-> "chat", activeSessionId |-> sessionsCreated + 1]
         ELSE /\ utterance' = [utterance EXCEPT !.pc = "chat"]
              /\ UNCHANGED <<sessionsCreated, sessionId>>
    /\ UNCHANGED <<handlerSessionId, chatSessionIds, avatarFrame>>

\* The chat request is sent with session_id = activeSessionId, and the call
\* runs to its end.
AvatarChatRequest ==
    /\ utterance.pc = "chat"
    /\ chatSessionIds' = Append(chatSessionIds, utterance.activeSessionId)
    /\ utterance' = [utterance EXCEPT !.pc = "idle"]
    /\ UNCHANGED <<sessionId, handlerSessionId, sessionsCreated, avatarFrame>>

AvatarNext ==
    \/ UtteranceRecognized
    \/ \E ok \in BOOLEAN : AvatarSessionResponds(ok)
    \/ AvatarChatRequest

AvatarSpec == Init /\ [][AvatarNext]_vars

----------------------------------------------------------------------------
(* StatsProvider under the AuthProvider of the root layout: the provider    *)
(* stays mounted while users log out and in.                                *)

\* What /profile/{email} returns for each account.
AccountStats(email) ==
    IF email = "ada@x"
    THEN [level |-> 1, total_xp |-> 480, streak_days |-> 5]
    ELSE [level |-> 4, total_xp |-> 2400, streak_days |-> 8]

\* fetchStats of the render with the signed-in user; `ok` is the answer of
\* the profile request (a thrown request is logged like a non-OK one).
fetchStatsOfUser(ok) ==
    /\ user # "none"
    /\ fetches < MaxFetches
    /\ fetches' = fetches + 1
    /\ lastFetchOk' = ok
    /\ IF ok
         THEN /\ ProcessStats(AccountStats(user))
              /\ baselineUser' = user
         ELSE UNCHANGED <<stats, lastStatsRef, isFirstLoad, notifications, baselineUser>>
    /\ UNCHANGED <<inflight, switchFrame>>

SwitchNext ==
    \/ \E email \in Emails : signup(email)
    \/ \E ok \in BOOLEAN : RegisterResponds(ok)
    \/ \E email \in Emails : login(email)
    \/ \E ok \in BOOLEAN : LoginResponds(ok)
    \/ ProfileResponds
    \/ logout
    \/ \E ok \in BOOLEAN : fetchStatsOfUser(ok)

SwitchSpec == Init /\ [][SwitchNext]_vars

----------------------------------------------------------------------------
(* Buddy page: level and progress bar from total_xp. *)

XPGains == {1, 99, 100}

\* BuddyPage renders with the stats it has.
BuddyPageRender ==
    /\ ~buddyPage.rendered
    /\ buddyPage' = [rendered |-> TRUE,
                     correctLevel |-> correctLevel(pageXP),
                     xpProgress |-> xpProgress(pageXP),
                     xpRequiredForLevel |-> xpRequiredForLevel(pageXP),
                     progress |-> ProgressValue(pageXP)]
    /\ UNCHANGED <<pageXP, prevRender, levelFrame>>

\* The stats change: total_xp has grown and the page is due to render again.
XPGrows(gain) ==
    /\ buddyPage.rendered
    /\ pageXP + gain \in XPInputs
    /\ prevRender' = [xp |-> pageXP, correctLevel |-> buddyPage.correctLevel]
    /\ pageXP' = pageXP + gain
    /\ buddyPage' = NotRendered
    /\ UNCHANGED levelFrame

LevelNext ==
    \/ BuddyPageRender
    \/ \E gain \in XPGains : XPGrows(gain)

\* The Buddy page opened with any total_xp.
LevelInit ==
    /\ InitWith(InitProfiles)
    /\ InitAuth
    /\ InitLevel(XPInputs)
    /\ InitOtherPages
    /\ InitVoice
    /\ InitRag
    /\ InitTopic
    /\ InitExplanations
    /\ InitDetector
    /\ InitLocks

LevelSpec == LevelInit /\ [][LevelNext]_vars

\* The session under the scheduling the engine guarantees: every automatic
\* engine step is eventually taken, the learner always answers, and the
\* gamification invocations run to completion.
FairSpec ==
    /\ Spec
    /\ WF_vars(GenerateExplanation)
    /\ WF_vars(SubmitResponse)
    /\ WF_vars(EvaluateResponse)
    /\ WF_vars(DetectConfusion)
    /\ WF_vars(Adapt)
    /\ WF_vars(EvaluateTeachBack)
    /\ \A h \in Handlers : WF_vars(FetchProfile(h)) /\ WF_vars(SaveProfile(h))
    /\ WF_vars(UpdateKnowledgeGraph)
    /\ WF_vars(NotifyFrontend)
    /\ WF_vars(CompleteSession)

TypeOK ==
    /\ state \in States
    /\ reExplanationCount \in 0..MaxReExplanations
    /\ confusionScore \in Scores
    /\ perfectSession \in BOOLEAN
    /\ split \in BOOLEAN
    /\ masteryPc \in {"none", "award", "graph", "notify", "complete", "done"}
    /\ resumes \in 0..MaxResumes
    /\ kgNode.status \in {"not_started", "learning", "mastered"}
    /\ kgNode.masteryPercentage \in 0..100
    /\ notified \in BOOLEAN
    /\ eventsEmitted \in 0..MaxEvents
    /\ today \in 0..MaxDay
    /\ \A h \in Handlers : handler[h].pc \in {"idle", "received", "computed"}

----------------------------------------------------------------------------
(* Properties. *)

\* The edge set the state graph is specified to have.
ClaimEdges ==
    StateTransitions \cup { <<"Adaptation", "Complete">>,
                            <<"TeachBack", "Explanation">> }

\* C1: every change of the session's state follows one of the defined edges,
\* and the terminal state Complete is never left.
C1_OnlyDefinedEdges ==
    [][ /\ (state' # state => <<state, state'>> \in ClaimEdges)
        /\ (state = "Complete" => state' = "Complete") ]_vars

\* C2: reExplanationCount never exceeds 3; a re-explanation out of Adaptation
\* is taken only while the count is below 3 and adds exactly 1; with the count
\* at 3 and a confusion score above 0.3 the session takes the sub-topic split
\* to Complete.
C2_ReExplanationCap ==
    [][ /\ reExplanationCount <= 3
        /\ reExplanationCount' <= 3
        /\ (state = "Adaptation" /\ state' = "Explanation"
              => reExplanationCount < 3
                 /\ reExplanationCount' = reExplanationCount + 1)
        /\ (state = "Adaptation" /\ state' # state
              /\ reExplanationCount >= 3 /\ confusionScore > 3
              => state' = "Complete" /\ split') ]_vars

\* C3: out of Adaptation with a confusion score in (0.5, 1.0] the session goes
\* to Explanation or to the sub-topic-split terminal; it enters TeachBack from
\* Adaptation only with a score of at most 0.3.
C3_ConfusedNeverTeachBack ==
    [][ state = "Adaptation" /\ state' # state
          => /\ (confusionScore > 5
                   => \/ state' = "Explanation"
                      \/ state' = "Complete" /\ split')
             /\ (state' = "TeachBack" => confusionScore <= 3) ]_vars

\* C3 witness: a re-explanation was taken out of Adaptation with a score
\* above 0.5 (TeachBack, the other way back to Explanation, needs a score
\* below 0.3).
C3_Witness ==
    /\ state = "Explanation"
    /\ confusionScore > 5
    /\ reExplanationCount >= 1

\* C4: every session eventually reaches the terminal state Complete.
C4_Terminates == <>(state = "Complete")

\* C5: session completion by mastery, the mastered node and the topic_mastered
\* XP award are visible all together or not at all.
C5_MasteryAtomic ==
    LET completed == state = "Complete" /\ ~split
        mastered  == kgNode = [status |-> "mastered", masteryPercentage |-> 100]
        awarded   == xpTransactions >= 1
    IN  (completed <=> mastered) /\ (mastered <=> awarded)

\* C6: however often the mastery steps are retried, the session ends as after
\* one successful run: completed, node mastered, and the topic_mastered XP
\* awarded exactly once.
C6_AwardedOnce ==
    /\ xpTransactions <= 1
    /\ (masteryPc = "done"
          => /\ state = "Complete"
             /\ kgNode = [status |-> "mastered", masteryPercentage |-> 100]
             /\ xpTransactions = 1)

\* C7: when two events were handled from the same profile pre-state, the
\* final totalXP is the pre-state totalXP plus both deltas.
C7_NoLostUpdate ==
    ( /\ \A h \in Handlers : handler[h].pc = "idle" /\ handler[h].event.type # "none"
      /\ handler[1].fetched = handler[2].fetched )
    => profile.totalXP = handler[1].fetched.totalXP
                         + (handler[1].next.totalXP - handler[1].fetched.totalXP)
                         + (handler[2].next.totalXP - handler[2].fetched.totalXP)

\* The threshold rule as the claim states it.
ClaimThreshold(n) ==
    CASE n = 1 -> 0
      [] n = 2 -> 500
      [] n = 3 -> 1200
      [] n = 4 -> 2500
      [] n = 5 -> 5000
      [] n = 6 -> 10000
      [] OTHER -> 10000 + (n - 7) * 10000

ClaimLevel(xp) ==
    CHOOSE n \in 1..(MaxLevel + 1) :
        /\ ClaimThreshold(n) <= xp
        /\ \A m \in 1..(MaxLevel + 1) : ClaimThreshold(m) <= xp => m <= n

\* C8: the profile's level, and the level the Buddy page derives from the
\* fetched XP, are the largest level of the tiered table whose threshold is
\* at most the XP.
C8_LevelFollowsTable ==
    /\ profile.level = ClaimLevel(profile.totalXP)
    /\ correctLevel(stats.total_xp) = ClaimLevel(stats.total_xp)

\* The threshold values XP can cross.
ClaimThresholds == { ClaimThreshold(n) : n \in 2..(MaxLevel + 1) }

\* C9: an award that takes totalXP across a level threshold raises the level
\* by exactly 1 and crosses no second threshold.
C9_LevelStepsByOne ==
    [][ \A h \in Handlers :
          handler[h].pc = "computed" /\ handler'[h].pc = "idle"
          => LET pre     == handler[h].fetched
                 crossed == { t \in ClaimThresholds :
                                 pre.totalXP < t /\ t <= profile'.totalXP }
             IN  crossed # {} => /\ profile'.level = pre.level + 1
                                 /\ Cardinality(crossed) = 1 ]_vars

\* C9 witness: an award has just crossed a threshold and raised the level.
C9_Witness ==
    \E h \in Handlers :
        /\ handler[h].pc = "idle"
        /\ handler[h].event.type # "none"
        /\ profile = handler[h].next
        /\ \E t \in ClaimThresholds :
              handler[h].fetched.totalXP < t /\ t <= profile.totalXP
        /\ profile.level = handler[h].fetched.level + 1

\* C10: totalXP, level and longestStreak never decrease, and longestStreak is
\* never below currentStreak.
C10_Monotone ==
    [][ /\ profile'.totalXP >= profile.totalXP
        /\ profile'.level >= profile.level
        /\ profile'.longestStreak >= profile.longestStreak
        /\ profile.longestStreak >= profile.currentStreak
        /\ profile'.longestStreak >= profile'.currentStreak ]_vars

\* The base awards as the claim lists them.
ClaimBaseXP ==
    [ explanation_completed |-> 20, check_passed_first |-> 50,
      check_passed_second |-> 30, teach_back_success |-> 100,
      topic_mastered |-> 150 ]

ScenarioComputed(h) ==
    /\ handler[h].pc = "received"
    /\ handler'[h].pc = "computed"
    /\ handler[h].event.type = "topic_mastered"
    /\ handler[h].event.perfect
    /\ handler'[h].fetched.totalXP = 480
    /\ handler'[h].fetched.currentStreak = 5

\* The dashboard fetch that observes the scenario's update.
ScenarioObserved ==
    /\ lastStatsRef # <<>>
    /\ lastStatsRef[1].total_xp = 480 /\ lastStatsRef[1].level = 1
    /\ lastStatsRef' # <<>>
    /\ lastStatsRef'[1].total_xp = 730

ClaimStage(level) ==
    CASE level \in 1..2 -> "Seedling"
      [] level \in 3..4 -> "Sprout"
      [] level \in 5..6 -> "Sapling"
      [] level \in 7..9 -> "Tree"
      [] OTHER          -> "Master"

\* C13: the stage stored for a level and the stage title the dashboard shows
\* for a level are the stage the mapping gives for that level.
C13_StageMapping ==
    /\ profile.evolutionStage = ClaimStage(profile.level)
    /\ getLevelTitle(stats.level) = ClaimStage(stats.level)

\* C14: a fetch that observes a profile update raises a stage notification
\* exactly when the mapped stage of the new level differs from the mapped
\* stage of the previous level, and then raises exactly one.
C14_StageEventIffStageChange ==
    [][ lastStatsRef # <<>> /\ lastStatsRef' # lastStatsRef
          => notifications'.EvolutionPath - notifications.EvolutionPath
               = IF ClaimStage(lastStatsRef'[1].level)
                      # ClaimStage(lastStatsRef[1].level)
                 THEN 1 ELSE 0 ]_vars

\* The score formula as the claim states it, in 1/3000:
\* 0.4 * (1 - similarity) + 0.2 * deviation + 0.3 * min(attempts / 3, 1)
\* + 0.1 * sentiment.
ClaimConfusionScore(sig) ==
    LET sim == Clamp(sig.semanticSimilarity, 0, 10)
        dev == ResponseTimeDeviation(sig.responseTimeSeconds, sig.baselineSeconds)
        att == IF sig.incorrectAttempts < 3 THEN sig.incorrectAttempts ELSE 3
    IN  (1200 * (10 - sim)) \div 10 + (600 * dev) \div 30
        + (900 * att) \div 3 + (300 * sig.sentimentConfusionScore) \div 10

\* C15: the confusion score of every valid signal tuple lies in [0, 1] and is
\* the stated function of the four signals, whatever was computed before.
C15_ScoreInUnitInterval ==
    [][ computedScore' # computedScore /\ computedScore' # -1
          => /\ computedScore' >= 0
             /\ computedScore' <= ScoreScale
             /\ computedScore' = ClaimConfusionScore(signals) ]_vars

\* C15 witness: the detector has scored a response with more than 3
\* incorrect attempts and every other signal at its maximum: the score is 1.
C15_Witness ==
    /\ signals.incorrectAttempts > 3
    /\ signals.semanticSimilarity = 0
    /\ computedScore = ScoreScale

\* The signals of the scenario of C16.
ScenarioSignals ==
    /\ signals.semanticSimilarity = 2
    /\ signals.responseTimeSeconds = 45
    /\ signals.baselineSeconds = 20
    /\ signals.incorrectAttempts = 3
    /\ signals.sentimentConfusionScore = 8

C17_BandsLowerClosed ==
    [][ state = "Adaptation" /\ state' # state
          => /\ (confusionScore <= 3 => state' = "TeachBack")
             /\ (confusionScore > 3 /\ confusionScore <= 5
                   => /\ state' \in {"ComprehensionCheck", "Explanation"}
                      /\ reExplanationCount' = reExplanationCount)
             /\ (confusionScore > 5 /\ confusionScore <= 7
                   => \/ /\ state' = "Explanation"
                         /\ reExplanationCount' = reExplanationCount + 1
                      \/ /\ reExplanationCount >= 3
                         /\ state' = "Complete" /\ split')
             /\ (confusionScore > 7 => state' = "Complete" /\ split') ]_vars

\* C18: an event handled on day d sets the streak to currentStreak + 1 when
\* the last activity was on d - 1, leaves it when the last activity was on d,
\* and otherwise resets it to 0, or to 1 when a streak-freeze credit is
\* available and exactly one day was skipped; so the stored streak grows by 1
\* from one active day to the next and does not move on further events of
\* the same day.
C18_StreakUpdate ==
    [][ /\ \A h \in Handlers :
              handler[h].pc = "received" /\ handler'[h].pc = "computed"
              => LET pre  == handler'[h].fetched
                     new  == handler'[h].next.currentStreak
                     last == pre.lastActivityDate
                 IN  /\ (last + 1 = today => new = pre.currentStreak + 1)
                     /\ (last = today => new = pre.currentStreak)
                     /\ (last + 1 < today
                           => new = IF pre.streakFreezes > 0 /\ last + 2 = today
                                    THEN 1 ELSE 0)
        /\ (profile' # profile
              => /\ (profile'.lastActivityDate = profile.lastActivityDate
                       => profile'.currentStreak = profile.currentStreak)
                 /\ (profile'.lastActivityDate = profile.lastActivityDate + 1
                       => profile'.currentStreak = profile.currentStreak + 1))
      ]_vars


\* C19: a completed achievement keeps its completed flag and its unlockedAt
\* whatever is handled later, and evaluating the achievements again on the
\* profile just saved unlocks nothing more.
C19_CompletedImmutable ==
    [][ /\ \A a \in AchievementIds :
              achievements[a].completed => achievements'[a] = achievements[a]
        /\ \A h \in Handlers :
              handler[h].pc = "computed" /\ handler'[h].pc = "idle"
              => UnlockedAchievements(achievements', handler[h].next,
                                      handler[h].event) = {} ]_vars

\* The transition requests that hold a session and have not yet written.
InFlight(s) ==
    { r \in Requests : transition[r].session = s
                         /\ transition[r].pc \in {"reading", "writing"} }

\* C20: a session has at most one transition in flight; a transition writes
\* over the very state it read, so the next one reads what it wrote; and a
\* request for a session nobody is mutating is never held up by transitions
\* of other sessions.
C20_OneTransitionPerSession ==
    [][ /\ \A s \in Sessions : Cardinality(InFlight(s)) <= 1
        /\ \A r \in Requests :
              transition[r].pc = "writing" /\ transition'[r].pc = "idle"
              => /\ transition[r].read = sessionVersion[transition[r].session]
                 /\ sessionVersion'[transition[r].session]
                      = sessionVersion[transition[r].session] + 1
        /\ \A r \in Requests :
              transition[r].pc = "waiting" /\ InFlight(transition[r].session) = {}
              => ENABLED AcquireSession(r) ]_vars

\* C20 witness: transitions of both sessions are in flight at the same time
\* while a second request for one of them waits, after an earlier transition
\* of that session was written.
C20_Witness ==
    /\ InFlight("s1") # {}
    /\ InFlight("s2") # {}
    /\ \E r \in Requests : transition[r].pc = "waiting"
    /\ \E s \in Sessions : sessionVersion[s] >= 1

C24_PerfectIffNoReExplanation ==
    [][ /\ perfectSession <=> reExplanationCount = 0
        /\ perfectSession' <=> reExplanationCount' = 0
        /\ state = "Adaptation" /\ state' = "Explanation"
           => /\ perfectSession' = FALSE
              /\ reExplanationCount' = reExplanationCount + 1
        /\ ~perfectSession => ~perfectSession'
        /\ \A h \in Handlers :
              handler'[h].event.session /\ handler'[h].event.perfect
              /\ handler'[h] # handler[h] /\ handler[h].pc = "idle"
              => /\ reExplanationCount = 0
                 /\ handler'[h].event.type = "topic_mastered" ]_vars

\* C24 witness: a session mastered after a re-explanation has its event
\* without the perfect flag.
C24_Witness ==
    /\ reExplanationCount >= 1
    /\ ~perfectSession
    /\ \E h \in Handlers :
          /\ handler[h].pc = "received"
          /\ handler[h].event.session
          /\ ~handler[h].event.perfect

\* C25: masteryPercentage stays within 0..100 and never decreases; a node
\* that is mastered stays mastered, also when a later session on the topic
\* starts; and a mastered node has masteryPercentage 100.
C25_MasteredNeverRegresses ==
    [][ /\ kgNode'.masteryPercentage \in 0..100
        /\ kgNode'.masteryPercentage >= kgNode.masteryPercentage
        /\ kgNode.status = "mastered" => kgNode'.status = "mastered"
        /\ kgNode'.status = "mastered" => kgNode'.masteryPercentage = 100 ]_vars

EventsApplied == eventsEmitted - (IF handler[1].pc = "idle" THEN 0 ELSE 1)

\* C27: every increase of total_xp, level or streak_days leads to at most
\* one notification of its kind, however the fetchStats calls overlap: the
\* notifications of a kind never outnumber the events applied to the profile.
C27_OneNotificationPerIncrease ==
    /\ notifications.XPGained <= EventsApplied
    /\ notifications.LevelUp <= EventsApplied
    /\ notifications.StreakRise <= EventsApplied

\* C28: recognition is never started while an utterance is being processed
\* or Buddy's reply is being spoken: recognition.start() is not called
\* between the acceptance of an utterance and the end of the spoken reply.
C28_NoListeningWhileReplying ==
    [][ recognition = "inactive" /\ recognition' = "starting"
        => /\ ~isProcessingRef
           /\ chats = 0
           /\ ~speaking
           /\ ~speakRetry ]_vars

C30_SignupTrueMeansLoggedIn ==
    [][ /\ signupReturned = "pending" /\ signupReturned' = "true"
           => /\ authCall.email \in registered'
              /\ user' = authCall.email
              /\ localStorage'.token # "none"
              /\ localStorage'.learnloop_user = authCall.email
              /\ route' = "/"
        /\ ( /\ authCall.op = "signup"
             /\ authCall'.pc = "idle"
             /\ authError' # "none" )
           => signupReturned' = "false" ]_vars

\* C31: on the room session page, while Buddy Ears is on a recognition
\* instance is running: once the effects of a render have run, isListening
\* being true means that some instance is started and has not ended.
C31_EarsOnMeansRecognitionRuns ==
    (isListening /\ ~effectPending) => LiveRecognitions # {}

\* The run of the observation effect that belongs to the current activeRoom.
CurrentObservation ==
    IF mounted /\ activeRoom # NoRoom THEN {Len(observations)} ELSE {}

\* C32: on the rooms page at most one WebSocket is open and at most one
\* recognition instance is running, both of the current activeRoom; after
\* the room is cleared, replaced or deleted or the page unmounts, the old
\* room's WebSocket is closed and its recognition is not running.
C32_OnlyActiveRoomObserved ==
    \A i \in DOMAIN observations :
        (observations[i].ws = "open" \/ observations[i].recognition = "active")
            => i \in CurrentObservation

\* C33: the auto-hide timer of notification n hides the popup exactly when
\* the popup still shows n: a step in which the timer of n fires leaves the
\* popup of any other notification in place and clears the popup of n.
C33_TimerHidesOnlyOwnPopup ==
    [][\A n \in popupTimers :
          popupTimers' = popupTimers \ {n}
              => showPopup' = IF showPopup = n THEN NoPopup ELSE showPopup]_vars

\* The timer of an earlier notification has fired under the popup of a
\* later one, whose own timer is still pending.
C33_Witness ==
    /\ showPopup # NoPopup
    /\ showPopup \in popupTimers
    /\ \E n \in 1..(showPopup - 1) : n \notin popupTimers

\* C38: unreadCount lies between 0 and the number of notifications in the
\* list, and the popup is empty or shows a notification of the list.
C38_UnreadAndPopupWithinList ==
    /\ unreadCount \in 0..Len(notificationList)
    /\ showPopup = NoPopup \/ showPopup \in Listed

\* The messages are user messages each followed by one model message, the
\* last user message still waiting for its model message while the submit
\* is in progress.
Exchanges(msgs, inProgress) ==
    /\ Len(msgs) % 2 = (IF inProgress THEN 1 ELSE 0)
    /\ \A i \in DOMAIN msgs :
          IF i % 2 = 1 THEN msgs[i] = "user" ELSE msgs[i] \in ModelMessages

\* C34: every accepted submit appends one user message followed by one
\* model message and ends with isLoading false, whatever the session
\* creation and the chat request do; a handleSubmit call with a blank input
\* or without a user changes nothing.
C34_SubmitAppendsOneExchange ==
    [][/\ (submitCalls' # submitCalls /\ submit' = "idle")
            => UNCHANGED <<messages, input, chatIsLoading, currentSessionId>>
       /\ (submitCalls' # submitCalls /\ submit' # "idle")
            => Trim(input) # "" /\ messages' = Append(messages, "user")
       /\ Exchanges(messages', submit' # "idle")
       /\ chatIsLoading' = (submit' # "idle")]_vars

\* A submit whose session creation failed has ended with a model message.
C34_Witness ==
    /\ submit = "idle"
    /\ currentSessionId = "none"
    /\ Len(messages) = 2

\* C35: a mounted avatar creates at most one chat session, and once a
\* session was created every later chat request carries its id.
C35_OneSessionPerAvatar ==
    /\ sessionsCreated <= 1
    /\ \A i, j \in DOMAIN chatSessionIds :
          (i < j /\ chatSessionIds[i] # NoSession) => chatSessionIds[j] = chatSessionIds[i]

\* C36: a login whose request fails returns {success: false, error} with
\* the error set, leaves user, the stored token and the stored user as they
\* were, sends the router nowhere and ends with isLoading false; a logout
\* clears user and removes both stored items in the same step.
C36_FailedLoginChangesNothing ==
    [][/\ (authCall.pc = "login" /\ authCall'.pc = "idle")
            => /\ loginReturned' = [done |-> TRUE, success |-> FALSE, error |-> authError']
               /\ authError' # "none"
               /\ UNCHANGED <<user, localStorage, route>>
               /\ ~authIsLoading'
       /\ (user # "none" /\ user' = "none")
            => localStorage' = [token |-> "none", learnloop_user |-> "none"]]_vars

\* A signed-in user's login attempt has failed and the session is intact.
C36_Witness ==
    /\ loginReturned = [done |-> TRUE, success |-> FALSE, error |-> "Login failed"]
    /\ user # "none"
    /\ localStorage.token = user
    /\ localStorage.learnloop_user = user

\* C37: the first successful fetch of a user's stats, the one after another
\* user was signed in included, adds no notification, and a failed fetch
\* leaves stats, baseline and notifications as they were.
C37_FirstFetchOfUserIsSilent ==
    [][fetches' # fetches =>
          /\ (lastFetchOk' /\ baselineUser # user) => notifications' = notifications
          /\ ~lastFetchOk' => UNCHANGED <<stats, lastStatsRef, isFirstLoad, notifications>>]_vars

\* C39: for every total_xp >= 0 the Buddy page's level lies in 1..1000, is
\* the level whose 100-XP band holds total_xp (the last one from 99900 on)
\* and does not fall when total_xp grows; xpProgress is never negative and
\* xpRequiredForLevel never zero; below level 1000 the requirement is 100,
\* the progress lies in 0..99, and the progress bar value lies in 0..100.
C39_LinearLevelAndProgress ==
    buddyPage.rendered =>
        /\ buddyPage.correctLevel \in 1..1000
        /\ (buddyPage.correctLevel - 1) * 100 <= pageXP
        /\ buddyPage.correctLevel < 1000 => pageXP < buddyPage.correctLevel * 100
        /\ prevRender.xp <= pageXP => prevRender.correctLevel <= buddyPage.correctLevel
        /\ buddyPage.xpProgress >= 0
        /\ buddyPage.xpRequiredForLevel # 0
        /\ buddyPage.correctLevel < 1000 =>
              /\ buddyPage.xpRequiredForLevel = 100
              /\ buddyPage.xpProgress \in 0..99
        /\ buddyPage.progress \in 0..100

\* The page was rendered at the cap with XP beyond the last band, after a
\* render below the cap.
C39_Witness ==
    /\ buddyPage.rendered
    /\ buddyPage.correctLevel = 1000
    /\ pageXP >= 100000
    /\ prevRender.correctLevel < 1000

====
